---- MODULE Spec2Model ----
(***************************************************************************)
(* Model of the aggregation and period-comparison engine of the Big Way    *)
(* delivery dashboard: the data hooks useDashboardData, usePlatformMatrix  *)
(* and useUberAdsMetrics, the memoised computations of ExecutiveSummary    *)
(* and UberAdsPanel, and the delta helpers (calcMom) each of them uses.    *)
(*                                                                         *)
(* JavaScript numbers are modelled as exact rationals extended with NaN,   *)
(* +Infinity and -Infinity; null and undefined are separate values.        *)
(* Floating-point rounding and the sign of zero are not modelled.          *)
(* Month keys ('YYYY-MM-01' strings) are modelled as the integer YYYYMM:   *)
(* equal-length ISO strings compare code unit by code unit exactly as      *)
(* these integers compare.                                                 *)
(***************************************************************************)
EXTENDS Integers, Sequences, FiniteSets, TLC

-----------------------------------------------------------------------------
(* JavaScript values *)

Num(k) == [t |-> "num", n |-> k, d |-> 1]
NaN == [t |-> "nan", n |-> 0, d |-> 1]
PosInf == [t |-> "inf", n |-> 0, d |-> 1]
NegInf == [t |-> "ninf", n |-> 0, d |-> 1]
Null == [t |-> "null", n |-> 0, d |-> 1]
Undef == [t |-> "undef", n |-> 0, d |-> 1]

Abs(k) == IF k < 0 THEN -k ELSE k

RECURSIVE Gcd(_, _)
Gcd(a, b) == IF b = 0 THEN a ELSE Gcd(b, a % b)

\* the rational n/d (d # 0) in lowest terms with a positive denominator
Rat(n, d) ==
  LET g == Gcd(Abs(n), Abs(d))
      s == IF d < 0 THEN -1 ELSE 1
  IN  [t |-> "num", n |-> (s * n) \div g, d |-> Abs(d) \div g]

IsNullish(v) == v.t \in {"null", "undef"}
IsFinite(v) == v.t = "num"
IsZero(v) == v.t = "num" /\ v.n = 0
Sign(v) ==
  CASE v.t = "inf" -> 1
    [] v.t = "ninf" -> -1
    [] v.t = "num" -> (IF v.n > 0 THEN 1 ELSE IF v.n < 0 THEN -1 ELSE 0)
    [] OTHER -> 0

\* Number(x) and the implicit ToNumber of the arithmetic operators
ToNumber(v) ==
  CASE v.t = "null" -> Num(0)
    [] v.t = "undef" -> NaN
    [] OTHER -> v

\* ToBoolean: 0, NaN, null and undefined are falsy
Truthy(v) == v.t \in {"inf", "ninf"} \/ (v.t = "num" /\ v.n # 0)

\* x || 0
OrZero(v) == IF Truthy(v) THEN v ELSE Num(0)

\* x ?? y
Coalesce(v, w) == IF IsNullish(v) THEN w ELSE v

InfOfSign(s) == IF s > 0 THEN PosInf ELSE NegInf

JsNeg(v) ==
  CASE v.t = "num" -> [t |-> "num", n |-> -v.n, d |-> v.d]
    [] v.t = "inf" -> NegInf
    [] v.t = "ninf" -> PosInf
    [] OTHER -> v

JsAdd(x, y) ==
  LET a == ToNumber(x)
      b == ToNumber(y)
  IN  CASE a.t = "nan" \/ b.t = "nan" -> NaN
        [] a.t = "num" /\ b.t = "num" -> Rat(a.n * b.d + b.n * a.d, a.d * b.d)
        [] a.t = "num" -> b
        [] b.t = "num" -> a
        [] a.t = b.t -> a
        [] OTHER -> NaN

JsSub(x, y) == JsAdd(x, JsNeg(ToNumber(y)))

JsDiv(x, y) ==
  LET a == ToNumber(x)
      b == ToNumber(y)
  IN  CASE a.t = "nan" \/ b.t = "nan" -> NaN
        [] a.t = "num" /\ b.t = "num" ->
             IF b.n # 0 THEN Rat(a.n * b.d, a.d * b.n)
             ELSE IF a.n = 0 THEN NaN
             ELSE InfOfSign(Sign(a))
        [] a.t = "num" -> Num(0)
        [] b.t = "num" -> InfOfSign(Sign(a) * (IF Sign(b) < 0 THEN -1 ELSE 1))
        [] OTHER -> NaN

\* x > 0 (false for NaN)
JsGt0(v) == Sign(ToNumber(v)) > 0 /\ ToNumber(v).t # "nan"

-----------------------------------------------------------------------------
(* Delta helpers *)

\* a delta that multiplies by 100 (a percentage instead of a fraction)
CalcMomDashPercent(curr, prev) ==
  IF ~Truthy(prev) \/ IsZero(prev) THEN Null
  ELSE JsDiv(JsSub(curr, prev), JsDiv(prev, Num(100)))

\* calcMom of useDashboardData
CalcMomDash(curr, prev) ==
  IF ~Truthy(prev) \/ IsZero(prev) THEN Null
  ELSE JsDiv(JsSub(curr, prev), prev)

\* calcMom of usePlatformMatrix
CalcMomMatrix(current, previous) ==
  IF previous.t = "null" \/ IsZero(previous) THEN Null
  ELSE JsDiv(JsSub(current, previous), previous)

\* calcMom of UberAdsPanel
CalcMomAds(curr, prev) ==
  IF IsNullish(curr) \/ IsNullish(prev) \/ ~IsFinite(curr) \/ ~IsFinite(prev)
     \/ IsZero(prev)
  THEN Null
  ELSE JsDiv(JsSub(curr, prev), prev)

-----------------------------------------------------------------------------
(* Sequences, strings and sorting *)

Range(s) == {s[i] : i \in 1..Len(s)}

\* s without the repetitions of an element (a Set keeps first-insertion order)
RECURSIVE Dedupe(_)
Dedupe(s) ==
  IF s = <<>> THEN <<>>
  ELSE LET front == Dedupe(SubSeq(s, 1, Len(s) - 1))
           x == s[Len(s)]
       IN  IF x \in Range(front) THEN front ELSE Append(front, x)

RECURSIVE InsertSorted(_, _, _)
InsertSorted(x, s, rk) ==
  IF s = <<>> THEN <<x>>
  ELSE IF rk[x] <= rk[Head(s)] THEN <<x>> \o s
  ELSE <<Head(s)>> \o InsertSorted(x, Tail(s), rk)

\* stable ascending sort of s by the rank rk[x] of its elements
RECURSIVE SortByRank(_, _)
SortByRank(s, rk) ==
  IF s = <<>> THEN <<>>
  ELSE InsertSorted(Head(s), SortByRank(Tail(s), rk), rk)

\* Array.prototype.sort() on month keys: code-unit order of the ISO strings
SortMonths(s) == SortByRank(s, [m \in Range(s) |-> m])

\* code-unit order of the region, platform and store names of the model
\* ("Alpha" < "BC" < "Beta" < "CA" < "Delta" < "Doordash" < "Fantuan" < "Gamma" < "ON"
\* < "UBER")
StrRank ==
  [x \in {"", "Alpha", "BC", "Beta", "CA", "Delta", "Doordash", "Fantuan", "Gamma", "ON",
           "UBER"} |->
     CASE x = "" -> 0
       [] x = "Alpha" -> 1
       [] x = "BC" -> 2
       [] x = "Beta" -> 3
       [] x = "CA" -> 4
       [] x = "Delta" -> 5
       [] x = "Doordash" -> 6
       [] x = "Fantuan" -> 7
       [] x = "Gamma" -> 8
       [] x = "ON" -> 9
       [] x = "UBER" -> 10]

SortStrings(s) == SortByRank(s, [x \in Range(s) |-> StrRank[x]])

\* sort() of the `${region}|${platform}` strings, kept as pairs
SortPairs(s) ==
  SortByRank(s, [p \in Range(s) |-> StrRank[p[1]] * 16 + StrRank[p[2]]])

\* Array.prototype.indexOf / findIndex, 0-based, -1 when absent
RECURSIVE IndexFrom(_, _, _)
IndexFrom(s, x, i) ==
  IF i > Len(s) THEN -1
  ELSE IF s[i] = x THEN i - 1
  ELSE IndexFrom(s, x, i + 1)

IndexOf(s, x) == IndexFrom(s, x, 1)

\* s[i] with the 0-based index of the source
At(s, i) == s[i + 1]

\* the month value standing for null / undefined / ''
NoMonth == 0

-----------------------------------------------------------------------------
(* useDashboardData *)

EmptyBucket == [revenue |-> Num(0), orders |-> Num(0)]

\* an aggregation pass that overwrites the bucket instead of adding to it
RECURSIVE AggBuildOverwrite(_, _, _)
AggBuildOverwrite(rows, i, acc) ==
  IF i > Len(rows) THEN acc
  ELSE LET r == rows[i]
           key == <<r.month, r.region>>
           pKey == <<r.month, r.region, r.platform>>
           b == [revenue |-> OrZero(ToNumber(r.revenue)),
                 orders |-> OrZero(ToNumber(r.orders))]
       IN  AggBuildOverwrite(rows, i + 1,
             [agg |-> [k \in DOMAIN acc.agg \cup {key} |->
                         IF k = key THEN b ELSE acc.agg[k]],
              platformAgg |-> [k \in DOMAIN acc.platformAgg \cup {pKey} |->
                         IF k = pKey THEN b ELSE acc.platformAgg[k]]])

\* the loop over rows that fills agg and platformAgg
RECURSIVE AggBuild(_, _, _)
AggBuild(rows, i, acc) ==
  IF i > Len(rows) THEN acc
  ELSE LET r == rows[i]
           key == <<r.month, r.region>>
           pKey == <<r.month, r.region, r.platform>>
           a0 == IF key \in DOMAIN acc.agg THEN acc.agg[key] ELSE EmptyBucket
           p0 == IF pKey \in DOMAIN acc.platformAgg
                 THEN acc.platformAgg[pKey] ELSE EmptyBucket
           a1 == [revenue |-> JsAdd(a0.revenue, OrZero(ToNumber(r.revenue))),
                  orders |-> JsAdd(a0.orders, OrZero(ToNumber(r.orders)))]
           p1 == [revenue |-> JsAdd(p0.revenue, OrZero(ToNumber(r.revenue))),
                  orders |-> JsAdd(p0.orders, OrZero(ToNumber(r.orders)))]
       IN  AggBuild(rows, i + 1,
             [agg |-> [k \in DOMAIN acc.agg \cup {key} |->
                         IF k = key THEN a1 ELSE acc.agg[k]],
              platformAgg |-> [k \in DOMAIN acc.platformAgg \cup {pKey} |->
                         IF k = pKey THEN p1 ELSE acc.platformAgg[k]]])

EmptyAgg == [agg |-> <<>>, platformAgg |-> <<>>]

RECURSIVE SumRegions(_, _, _, _, _)
SumRegions(agg, regions, month, i, acc) ==
  IF i > Len(regions) THEN acc
  ELSE LET key == <<month, regions[i]>>
       IN  SumRegions(agg, regions, month, i + 1,
             IF key \in DOMAIN agg
             THEN [revenue |-> JsAdd(acc.revenue, agg[key].revenue),
                   orders |-> JsAdd(acc.orders, agg[key].orders)]
             ELSE acc)

\* a getAgg that adds up every region whatever region it is given
GetAggEveryRegion(agg, regions, month, region) ==
  IF month = NoMonth THEN EmptyBucket
  ELSE SumRegions(agg, regions, month, 1, EmptyBucket)

\* getAgg(month, region?); region = "" stands for an omitted region
GetAgg(agg, regions, month, region) ==
  IF month = NoMonth THEN EmptyBucket
  ELSE IF region = "" THEN SumRegions(agg, regions, month, 1, EmptyBucket)
  ELSE IF <<month, region>> \in DOMAIN agg THEN agg[<<month, region>>]
  ELSE EmptyBucket

GetPlatformAgg(platformAgg, month, region, platform) ==
  IF month = NoMonth THEN EmptyBucket
  ELSE IF <<month, region, platform>> \in DOMAIN platformAgg
  THEN platformAgg[<<month, region, platform>>]
  ELSE EmptyBucket

\* orders > 0 ? revenue / orders : 0
Aov(b) == IF JsGt0(b.orders) THEN JsDiv(b.revenue, b.orders) ELSE Num(0)

MakeKpi(curr, prev) == [current |-> curr, previous |-> prev, mom |-> CalcMomDash(curr, prev)]

\* the value standing for a Kpi that is null
NoKpi == [current |-> Undef, previous |-> Undef, mom |-> Undef]

\* Array.from(new Set(rows.map(r => r.month))).sort()
MonthsOf(rows) == SortMonths(Dedupe([i \in 1..Len(rows) |-> rows[i].month]))

\* idx > 0 ? months[idx - 1] : null
PrevOf(months, idx) == IF idx > 0 THEN At(months, idx - 1) ELSE NoMonth

RegionalKpisOf(acc, regions, currentMonth, prevMonth) ==
  [i \in 1..Len(regions) |->
     LET currAgg == GetAgg(acc.agg, regions, currentMonth, regions[i])
         prevAgg == GetAgg(acc.agg, regions, prevMonth, regions[i])
     IN  [region |-> regions[i],
          revenue |-> MakeKpi(currAgg.revenue, prevAgg.revenue),
          orders |-> MakeKpi(currAgg.orders, prevAgg.orders),
          aov |-> MakeKpi(Aov(currAgg), Aov(prevAgg))]]

PlatformKpisOf(acc, pairs, currentMonth, prevMonth) ==
  [i \in 1..Len(pairs) |->
     LET currAgg == GetPlatformAgg(acc.platformAgg, currentMonth, pairs[i][1], pairs[i][2])
         prevAgg == GetPlatformAgg(acc.platformAgg, prevMonth, pairs[i][1], pairs[i][2])
     IN  [region |-> pairs[i][1],
          platform |-> pairs[i][2],
          revenue |-> MakeKpi(currAgg.revenue, prevAgg.revenue),
          orders |-> MakeKpi(currAgg.orders, prevAgg.orders),
          aov |-> MakeKpi(Aov(currAgg), Aov(prevAgg))]]

\* the state useDashboardData's initial useState holds
DashInitial ==
  [loading |-> TRUE, error |-> "none", currentMonth |-> NoMonth, prevMonth |-> NoMonth,
   revenueKpi |-> NoKpi, ordersKpi |-> NoKpi, aovKpi |-> NoKpi,
   regionalKpis |-> <<>>, platformKpis |-> <<>>,
   allMonths |-> <<>>, rawRows |-> <<>>]

\* the state load() sets after a successful fetch of a non-empty row set.
\* regionalKpis[i] holds the i-th entry of regionalRevenueKpis, regionalOrdersKpis
\* and regionalAovKpis (which share their region); platformKpis likewise.
DashLoaded(rows, selMonth, selRegion) ==
  LET months == MonthsOf(rows)
      currentMonth == IF selMonth # NoMonth THEN selMonth ELSE At(months, Len(months) - 1)
      idx == IndexOf(months, currentMonth)
      prevMonth == PrevOf(months, idx)
      acc == AggBuild(rows, 1, EmptyAgg)
      regions == SortStrings(Dedupe([i \in 1..Len(rows) |-> rows[i].region]))
      pairs == SortPairs(Dedupe([i \in 1..Len(rows) |-> <<rows[i].region, rows[i].platform>>]))
      globalCurr == GetAgg(acc.agg, regions, currentMonth, selRegion)
      globalPrev == GetAgg(acc.agg, regions, prevMonth, selRegion)
  IN  [loading |-> FALSE, error |-> "none",
       currentMonth |-> currentMonth, prevMonth |-> prevMonth,
       revenueKpi |-> MakeKpi(globalCurr.revenue, globalPrev.revenue),
       ordersKpi |-> MakeKpi(globalCurr.orders, globalPrev.orders),
       aovKpi |-> MakeKpi(Aov(globalCurr), Aov(globalPrev)),
       regionalKpis |-> RegionalKpisOf(acc, regions, currentMonth, prevMonth),
       platformKpis |-> PlatformKpisOf(acc, pairs, currentMonth, prevMonth),
       allMonths |-> months, rawRows |-> rows]

-----------------------------------------------------------------------------
(* ExecutiveSummary *)

\* the offset of the year-ago period in the period index
YoyOffset == 12

\* the number of earlier periods a trend window reaches back
TrendBack == 2

\* x <= 0 (false for NaN)
JsLe0(v) == ToNumber(v).t # "nan" /\ Sign(ToNumber(v)) <= 0

PrevMonthSelection(allMonths, selectedMonth) ==
  LET selectedIndex == IndexOf(allMonths, selectedMonth)
  IN  IF selectedIndex <= 0 THEN NoMonth ELSE At(allMonths, selectedIndex - 1)

\* a year-ago lookup that is off by one period
YoyMonthSelectionOffByOne(allMonths, selectedMonth) ==
  LET selectedIndex == IndexOf(allMonths, selectedMonth)
  IN  IF selectedIndex < YoyOffset - 1 THEN NoMonth
      ELSE At(allMonths, selectedIndex - (YoyOffset - 1))

YoyMonthSelection(allMonths, selectedMonth) ==
  LET selectedIndex == IndexOf(allMonths, selectedMonth)
  IN  IF selectedIndex < YoyOffset THEN NoMonth
      ELSE At(allMonths, selectedIndex - YoyOffset)

Max(a, b) == IF a > b THEN a ELSE b

PeriodMonths(allMonths, selectedMonth) ==
  LET selectedIndex == IndexOf(allMonths, selectedMonth)
  IN  IF selectedIndex = -1 THEN <<>>
      ELSE SubSeq(allMonths, Max(0, selectedIndex - TrendBack) + 1, selectedIndex + 1)

\* prevMonths / yoyMonths: the one-element list of a month, or []
MonthList(m) == IF m # NoMonth THEN <<m>> ELSE <<>>

\* a summation that stops after the first matching row
RECURSIVE SumLoopFirstOnly(_, _, _, _, _)
SumLoopFirstOnly(rawRows, months, pred, i, acc) ==
  IF i > Len(rawRows) THEN acc
  ELSE LET r == rawRows[i]
       IN  IF r.month \notin Range(months) \/ ~pred[r]
           THEN SumLoopFirstOnly(rawRows, months, pred, i + 1, acc)
           ELSE [revenue |-> JsAdd(acc.revenue, OrZero(ToNumber(r.revenue))),
                 orders |-> JsAdd(acc.orders, OrZero(ToNumber(r.orders)))]

\* the loop of sumForMonths; pred[r] is predicate(r)
RECURSIVE SumLoop(_, _, _, _, _)
SumLoop(rawRows, months, pred, i, acc) ==
  IF i > Len(rawRows) THEN acc
  ELSE LET r == rawRows[i]
       IN  SumLoop(rawRows, months, pred, i + 1,
             IF r.month \notin Range(months) \/ ~pred[r] THEN acc
             ELSE [revenue |-> JsAdd(acc.revenue, OrZero(ToNumber(r.revenue))),
                   orders |-> JsAdd(acc.orders, OrZero(ToNumber(r.orders)))])

SumForMonths(rawRows, months, pred) ==
  IF months = <<>> THEN EmptyBucket
  ELSE SumLoop(rawRows, months, pred, 1, EmptyBucket)

Metrics == {"revenue", "orders", "aov"}

PickMetric(agg, activeMetric) ==
  IF activeMetric = "revenue" THEN agg.revenue
  ELSE IF activeMetric = "orders" THEN agg.orders
  ELSE Aov(agg)

\* an inline delta that does not guard a zero baseline
InlineDeltaNoZeroGuard(currVal, baseVal) ==
  IF IsNullish(baseVal) THEN Null
  ELSE JsDiv(JsSub(currVal, baseVal), baseVal)

\* prevVal == null || prevVal === 0 ? null : (currVal - prevVal) / prevVal
InlineDelta(currVal, baseVal) ==
  IF IsNullish(baseVal) \/ IsZero(baseVal) THEN Null
  ELSE JsDiv(JsSub(currVal, baseVal), baseVal)

RECURSIVE SumValues(_, _, _)
SumValues(vals, i, acc) ==
  IF i > Len(vals) THEN acc ELSE SumValues(vals, i + 1, JsAdd(acc, vals[i]))

\* the rows pushed by the loop over platforms, before share is filled in
BreakdownBase(rawRows, allMonths, selectedMonth, selectedRegion, activeMetric) ==
  LET here == SelectSeq(rawRows,
                LAMBDA r : r.region = selectedRegion /\ r.month = selectedMonth)
      platforms == SortStrings(Dedupe([i \in 1..Len(here) |-> here[i].platform]))
      prevMonths == MonthList(PrevMonthSelection(allMonths, selectedMonth))
      yoyMonths == MonthList(YoyMonthSelection(allMonths, selectedMonth))
  IN  [i \in 1..Len(platforms) |->
         LET filterFn == [r \in Range(rawRows) |->
                            r.region = selectedRegion /\ r.platform = platforms[i]]
             currVal == PickMetric(SumForMonths(rawRows, <<selectedMonth>>, filterFn),
                                   activeMetric)
             prevVal == IF prevMonths # <<>>
                        THEN PickMetric(SumForMonths(rawRows, prevMonths, filterFn),
                                        activeMetric)
                        ELSE Null
             yoyVal == IF yoyMonths # <<>>
                       THEN PickMetric(SumForMonths(rawRows, yoyMonths, filterFn),
                                       activeMetric)
                       ELSE Null
         IN  [key |-> platforms[i], current |-> currVal, share |-> Null,
              previous |-> prevVal,
              mom |-> InlineDelta(currVal, prevVal),
              yoy |-> InlineDelta(currVal, yoyVal)]]

\* breakdownRows of ExecutiveSummary
BreakdownRows(rawRows, allMonths, selectedMonth, selectedRegion, activeMetric) ==
  IF selectedMonth = NoMonth THEN <<>>
  ELSE LET rows == BreakdownBase(rawRows, allMonths, selectedMonth, selectedRegion,
                                 activeMetric)
           totalCurrent == SumValues([i \in 1..Len(rows) |-> rows[i].current], 1, Num(0))
       IN  IF JsLe0(totalCurrent) THEN rows
           ELSE [i \in 1..Len(rows) |->
                   [rows[i] EXCEPT !.share = JsDiv(rows[i].current, totalCurrent)]]

\* !prev || prev === 0 ? null : (curr - prev) / prev
MakeKpiWindow(curr, prev) ==
  [current |-> curr, previous |-> prev,
   mom |-> IF ~Truthy(prev) \/ IsZero(prev) THEN Null ELSE JsDiv(JsSub(curr, prev), prev)]

\* cardKpis of the ExecutiveSummary revision that sums the whole trend window
CardKpisWindow(rawRows, allMonths, selectedMonth, selectedRegion) ==
  LET scopeFilter == [r \in Range(rawRows) |-> r.region = selectedRegion]
      currAgg == SumForMonths(rawRows, PeriodMonths(allMonths, selectedMonth), scopeFilter)
      prevAgg == SumForMonths(rawRows,
                   MonthList(PrevMonthSelection(allMonths, selectedMonth)), scopeFilter)
  IN  [revenue |-> MakeKpiWindow(currAgg.revenue, prevAgg.revenue),
       orders |-> MakeKpiWindow(currAgg.orders, prevAgg.orders),
       aov |-> MakeKpiWindow(Aov(currAgg), Aov(prevAgg))]

-----------------------------------------------------------------------------
(* usePlatformMatrix *)

\* the cast of the fetched rows: Number(r.revenue ?? 0), Number(r.orders ?? 0)
Casted(data) ==
  [i \in 1..Len(data) |->
     [data[i] EXCEPT !.revenue = ToNumber(Coalesce(data[i].revenue, Num(0))),
                     !.orders = ToNumber(Coalesce(data[i].orders, Num(0)))]]

\* platformTrendSeries of ExecutiveSummary: per platform of the window, one point
\* per period of periodMonths; none when no value is above 0
PlatformTrendSeries(rawRows, periodMonths, selectedRegion, activeMetric) ==
  IF periodMonths = <<>> THEN <<>>
  ELSE LET here == SelectSeq(rawRows,
                     LAMBDA r : r.region = selectedRegion
                                /\ r.month \in Range(periodMonths))
           platforms == SortStrings(Dedupe([i \in 1..Len(here) |-> here[i].platform]))
           series ==
             [k \in 1..Len(platforms) |->
                [platform |-> platforms[k],
                 points |->
                   [i \in 1..Len(periodMonths) |->
                      [month |-> periodMonths[i],
                       value |->
                         PickMetric(
                           SumForMonths(rawRows, <<periodMonths[i]>>,
                             [r \in Range(rawRows) |->
                                r.region = selectedRegion /\ r.platform = platforms[k]]),
                           activeMetric)]]]]
           values == {series[k].points[i].value :
                        k \in 1..Len(platforms), i \in 1..Len(periodMonths)}
           \* Math.max(...values, 0) <= 0
           maxValLe0 == \A v \in values : v.t # "nan" /\ ~JsGt0(v)
       IN  IF platforms = <<>> \/ maxValLe0 THEN <<>> ELSE series

MatchPlatform(platformFilter, platform) ==
  IF platformFilter = "ALL" THEN TRUE ELSE platform = platformFilter

\* rawRows.filter(region === selectedRegion && month === m && matchPlatform(platform))
MatrixFilter(rawRows, selectedRegion, month, platformFilter) ==
  SelectSeq(rawRows,
    LAMBDA r : r.region = selectedRegion /\ r.month = month
               /\ MatchPlatform(platformFilter, r.platform))

StoresOf(rows) == Dedupe([i \in 1..Len(rows) |-> rows[i].store_name])

OfStore(rows, store) == SelectSeq(rows, LAMBDA r : r.store_name = store)

Revenues(rows) == [i \in 1..Len(rows) |-> rows[i].revenue]
Orders(rows) == [i \in 1..Len(rows) |-> rows[i].orders]

\* the MatrixRow of one store: cur and prv are its rows of the current and the
\* previous month, in feed order
MatrixRowOf(store, region, cur, prv) ==
  LET revenueCurrent == SumValues(Revenues(cur), 1, Num(0))
      ordersCurrent == SumValues(Orders(cur), 1, Num(0))
      revenuePrev == IF prv = <<>> THEN Null ELSE SumValues(Revenues(prv), 1, Num(0))
      ordersPrev == IF prv = <<>> THEN Null ELSE SumValues(Orders(prv), 1, Num(0))
      aovCurrent == IF JsGt0(ordersCurrent) THEN JsDiv(revenueCurrent, ordersCurrent)
                    ELSE Num(0)
      aovPrev == IF ~IsNullish(ordersPrev) /\ JsGt0(ordersPrev) /\ ~IsNullish(revenuePrev)
                 THEN JsDiv(revenuePrev, ordersPrev) ELSE Null
  IN  [store_name |-> store, region |-> region,
       revenueCurrent |-> revenueCurrent, revenuePrev |-> revenuePrev,
       revenueMom |-> CalcMomMatrix(revenueCurrent, revenuePrev),
       ordersCurrent |-> ordersCurrent, ordersPrev |-> ordersPrev,
       ordersMom |-> CalcMomMatrix(ordersCurrent, ordersPrev),
       aovCurrent |-> aovCurrent, aovPrev |-> aovPrev,
       aovMom |-> IF ~IsNullish(aovPrev) THEN CalcMomMatrix(aovCurrent, aovPrev) ELSE Null]

SortByStore(rows) == SortByRank(rows, [r \in Range(rows) |-> StrRank[r.store_name]])

\* tableRows: one row per store of the current or the previous month
MatrixTable(rawRows, selectedRegion, selectedMonth, prev, platformFilter) ==
  LET currentRows == MatrixFilter(rawRows, selectedRegion, selectedMonth, platformFilter)
      prevRows == IF prev # NoMonth
                  THEN MatrixFilter(rawRows, selectedRegion, prev, platformFilter)
                  ELSE <<>>
      stores == StoresOf(currentRows \o prevRows)
  IN  SortByStore([i \in 1..Len(stores) |->
        MatrixRowOf(stores[i], selectedRegion,
                    OfStore(currentRows, stores[i]), OfStore(prevRows, stores[i]))])

\* months.slice(Math.max(0, idx - 2), idx + 1)
TrendMonthsOf(months, idx) == SubSeq(months, Max(0, idx - TrendBack) + 1, idx + 1)

RECURSIVE ConcatAll(_, _)
ConcatAll(ss, i) == IF i > Len(ss) THEN <<>> ELSE ss[i] \o ConcatAll(ss, i + 1)

\* a trend whose every value is the total of the whole window
MatrixTrendWindowTotal(rawRows, selectedRegion, trendMs, platformFilter) ==
  LET monthRows == [i \in 1..Len(trendMs) |->
                      MatrixFilter(rawRows, selectedRegion, trendMs[i], platformFilter)]
      stores == StoresOf(ConcatAll(monthRows, 1))
  IN  SortByStore([k \in 1..Len(stores) |->
        [store_name |-> stores[k], region |-> selectedRegion,
         values |-> [i \in 1..Len(trendMs) |->
                       SumValues(Revenues(OfStore(ConcatAll(monthRows, 1), stores[k])),
                                 1, Num(0))]]])

\* trendSeries: per store, the revenue of each trend month
MatrixTrend(rawRows, selectedRegion, trendMs, platformFilter) ==
  LET monthRows == [i \in 1..Len(trendMs) |->
                      MatrixFilter(rawRows, selectedRegion, trendMs[i], platformFilter)]
      stores == StoresOf(ConcatAll(monthRows, 1))
  IN  SortByStore([k \in 1..Len(stores) |->
        [store_name |-> stores[k], region |-> selectedRegion,
         values |-> [i \in 1..Len(trendMs) |->
                       SumValues(Revenues(OfStore(monthRows[i], stores[k])), 1, Num(0))]]])

PlatformOrder == <<"UBER", "Fantuan", "Doordash">>

\* storePlatformShare: per store, each platform's part of the current month's revenue
MatrixShare(rawRows, selectedRegion, selectedMonth) ==
  LET known == SelectSeq(rawRows,
                 LAMBDA r : r.region = selectedRegion /\ r.month = selectedMonth
                            /\ r.platform \in Range(PlatformOrder))
      stores == StoresOf(known)
  IN  SortByStore([k \in 1..Len(stores) |->
        LET mine == OfStore(known, stores[k])
            total == SumValues(Revenues(mine), 1, Num(0))
            safeTotal == IF JsGt0(total) THEN total ELSE Num(0)
        IN  [store_name |-> stores[k], region |-> selectedRegion,
             shares |-> [p \in 1..Len(PlatformOrder) |->
                [platform |-> PlatformOrder[p],
                 share |-> IF JsGt0(safeTotal)
                           THEN JsDiv(SumValues(Revenues(SelectSeq(mine,
                                   LAMBDA r : r.platform = PlatformOrder[p])), 1, Num(0)),
                                 safeTotal)
                           ELSE Num(0)]]]])

\* the state the hook's useState calls start from
MatrixInitial ==
  [loading |-> TRUE, error |-> "none", currentMonth |-> NoMonth, prevMonth |-> NoMonth,
   rows |-> <<>>, rawRows |-> <<>>, months |-> <<>>,
   trendMonths |-> <<>>, trendSeries |-> <<>>, storePlatformShare |-> <<>>]

\* a second effect that takes the shares from the rows the platform filter lets
\* through
MatrixEffectFilteredShare(st, selMonth, selRegion, platformFilter) ==
  IF selMonth = NoMonth \/ st.months = <<>> \/ IndexOf(st.months, selMonth) = -1
  THEN [st EXCEPT !.rows = <<>>, !.trendMonths = <<>>, !.trendSeries = <<>>,
                  !.storePlatformShare = <<>>]
  ELSE LET idx == IndexOf(st.months, selMonth)
           prev == PrevOf(st.months, idx)
           trendMs == TrendMonthsOf(st.months, idx)
       IN  [st EXCEPT !.currentMonth = selMonth, !.prevMonth = prev,
                      !.rows = MatrixTable(st.rawRows, selRegion, selMonth, prev,
                                           platformFilter),
                      !.trendMonths = trendMs,
                      !.trendSeries = MatrixTrend(st.rawRows, selRegion, trendMs,
                                                  platformFilter),
                      !.storePlatformShare =
                         MatrixShare(MatrixFilter(st.rawRows, selRegion, selMonth,
                                                  platformFilter),
                                     selRegion, selMonth)]

\* the second effect: the table, the trend and the share of the current selection
MatrixEffect(st, selMonth, selRegion, platformFilter) ==
  IF selMonth = NoMonth \/ st.months = <<>> \/ IndexOf(st.months, selMonth) = -1
  THEN [st EXCEPT !.rows = <<>>, !.trendMonths = <<>>, !.trendSeries = <<>>,
                  !.storePlatformShare = <<>>]
  ELSE LET idx == IndexOf(st.months, selMonth)
           prev == PrevOf(st.months, idx)
           trendMs == TrendMonthsOf(st.months, idx)
       IN  [st EXCEPT !.currentMonth = selMonth, !.prevMonth = prev,
                      !.rows = MatrixTable(st.rawRows, selRegion, selMonth, prev,
                                           platformFilter),
                      !.trendMonths = trendMs,
                      !.trendSeries = MatrixTrend(st.rawRows, selRegion, trendMs,
                                                  platformFilter),
                      !.storePlatformShare = MatrixShare(st.rawRows, selRegion, selMonth)]

-----------------------------------------------------------------------------
(* useUberAdsMetrics *)

\* the day count used when the month cannot be parsed
FallbackDays == 30

IsLeap(y) == (y % 4 = 0 /\ y % 100 # 0) \/ y % 400 = 0

\* a day count that is 30 for every month
DaysInMonthFixed(iso) == FallbackDays

\* new Date(Date.UTC(year, month + 1, 0)).getUTCDate() of a YYYYMM month key
DaysInMonth(iso) ==
  LET y == iso \div 100
      m == iso % 100
  IN  IF m < 1 \/ m > 12 THEN FallbackDays
      ELSE IF m = 2 THEN (IF IsLeap(y) THEN 29 ELSE 28)
      ELSE IF m \in {4, 6, 9, 11} THEN 30
      ELSE 31

\* .eq('region', region).in('month_date', monthFilter)
\*   .order('store_name').order('month_date')
AdsQuery(table, region, currentMonthIso, prevMonthIso) ==
  LET monthFilter == {m \in {currentMonthIso, prevMonthIso} : m # NoMonth}
      hit == SelectSeq(table, LAMBDA r : r.region = region /\ r.month_date \in monthFilter)
  IN  SortByRank(hit, [r \in Range(hit) |-> StrRank[r.store_name] * 1000000 + r.month_date])

\* the last row of s that satisfies pick, as a list of at most one row
LastWhere(s, pick(_)) ==
  LET hits == SelectSeq(s, pick) IN IF hits = <<>> THEN <<>> ELSE <<hits[Len(hits)]>>

\* curr?.field ?? null
FieldOrNull(slot, field) == IF slot = <<>> THEN Null ELSE Coalesce(slot[1][field], Null)

\* curr != null && prev != null && prev !== 0 ? (curr - prev) / prev : null
AdsDelta(curr, prev) ==
  IF ~IsNullish(curr) /\ ~IsNullish(prev) /\ ~IsZero(prev)
  THEN JsDiv(JsSub(curr, prev), prev) ELSE Null

\* the UberAdsMetricRow list built from the fetched rows
AdsRows(rowsData, currentMonthIso, prevMonthIso) ==
  LET stores == StoresOf(rowsData)
      daysInMonth == DaysInMonth(currentMonthIso)
  IN  [k \in 1..Len(stores) |->
        LET mine == OfStore(rowsData, stores[k])
            curr == LastWhere(mine, LAMBDA r : r.month_date = currentMonthIso)
            prev == LastWhere(mine, LAMBDA r : r.month_date # currentMonthIso
                                               /\ prevMonthIso # NoMonth
                                               /\ r.month_date = prevMonthIso)
            currSpend == FieldOrNull(curr, "spend")
            prevSpend == FieldOrNull(prev, "spend")
            currRoas == FieldOrNull(curr, "roas")
            prevRoas == FieldOrNull(prev, "roas")
        IN  [region |-> mine[1].region, store_name |-> stores[k],
             curr |-> [sales |-> FieldOrNull(curr, "sales"), spend |-> currSpend,
                       daily_spend |-> IF ~IsNullish(currSpend)
                                       THEN JsDiv(currSpend, Num(daysInMonth)) ELSE Null,
                       roas |-> currRoas, orders |-> FieldOrNull(curr, "orders"),
                       avg_cost_per_order |-> FieldOrNull(curr, "avg_cost_per_order")],
             prev |-> [sales |-> FieldOrNull(prev, "sales"), spend |-> prevSpend,
                       roas |-> prevRoas, orders |-> FieldOrNull(prev, "orders")],
             spend_delta_pct |-> AdsDelta(currSpend, prevSpend),
             roas_delta_pct |-> AdsDelta(currRoas, prevRoas)]]

AdsInitial == [loading |-> FALSE, error |-> "none", rows |-> <<>>]

-----------------------------------------------------------------------------
(* UberAdsPanel *)

\* x * y
JsMul(x, y) ==
  LET a == ToNumber(x)
      b == ToNumber(y)
  IN  CASE a.t = "nan" \/ b.t = "nan" -> NaN
        [] a.t = "num" /\ b.t = "num" -> Rat(a.n * b.n, a.d * b.d)
        [] Sign(a) = 0 \/ Sign(b) = 0 -> NaN
        [] OTHER -> InfOfSign(Sign(a) * Sign(b))

\* x || null
OrNull(v) == IF Truthy(v) THEN v ELSE Null

\* the loop of kpis over the rows: the totals of spend and of spend * roas
RECURSIVE AdsTotals(_, _, _)
AdsTotals(rows, i, acc) ==
  IF i > Len(rows) THEN acc
  ELSE LET currSpend == Coalesce(rows[i].curr.spend, Num(0))
           prevSpend == Coalesce(rows[i].prev.spend, Num(0))
           currRoas == Coalesce(rows[i].curr.roas, Num(0))
           prevRoas == Coalesce(rows[i].prev.roas, Num(0))
       IN  AdsTotals(rows, i + 1,
             [totalSalesCurr |-> JsAdd(acc.totalSalesCurr, JsMul(currSpend, currRoas)),
              totalSalesPrev |-> JsAdd(acc.totalSalesPrev, JsMul(prevSpend, prevRoas)),
              totalSpendCurr |-> JsAdd(acc.totalSpendCurr, currSpend),
              totalSpendPrev |-> JsAdd(acc.totalSpendPrev, prevSpend)])

AdsKpi(curr, prev) == [current |-> curr, previous |-> prev, mom |-> CalcMomAds(curr, prev)]

\* kpis of UberAdsPanel: total sales, total spend and the average ROAS
AdsPanelKpis(rows) ==
  IF rows = <<>>
  THEN [sales |-> [current |-> Null, previous |-> Null, mom |-> Null],
        spend |-> [current |-> Null, previous |-> Null, mom |-> Null],
        roas |-> [current |-> Null, previous |-> Null, mom |-> Null]]
  ELSE LET t == AdsTotals(rows, 1,
                  [totalSalesCurr |-> Num(0), totalSalesPrev |-> Num(0),
                   totalSpendCurr |-> Num(0), totalSpendPrev |-> Num(0)])
           avgRoasCurr == IF JsGt0(t.totalSpendCurr)
                          THEN JsDiv(t.totalSalesCurr, t.totalSpendCurr) ELSE Null
           avgRoasPrev == IF JsGt0(t.totalSpendPrev)
                          THEN JsDiv(t.totalSalesPrev, t.totalSpendPrev) ELSE Null
       IN  [sales |-> AdsKpi(OrNull(t.totalSalesCurr), OrNull(t.totalSalesPrev)),
            spend |-> AdsKpi(OrNull(t.totalSpendCurr), OrNull(t.totalSpendPrev)),
            roas |-> AdsKpi(avgRoasCurr, avgRoasPrev)]

\* calcSales of UberAdsPanel: spend * roas, null unless finite and positive
CalcSales(row) ==
  LET sales == JsMul(Coalesce(row.curr.spend, Num(0)), Coalesce(row.curr.roas, Num(0)))
  IN  IF ~IsFinite(sales) \/ ~JsGt0(sales) THEN Null ELSE sales

-----------------------------------------------------------------------------
(* The sortable tables of ExecutiveSummary, UberAdsPanel and PlatformMatrix *)

\* a string as a sort value, ordered as localeCompare orders the store names
Str(s) == [t |-> "str", n |-> StrRank[s], d |-> 1]

\* a > b for two numbers other than NaN
JsGt(a, b) == JsGt0(JsSub(a, b))

\* sortDir === 'asc' ? 1 : -1
DirFactor(dir) == IF dir = "asc" THEN 1 ELSE -1

\* va.localeCompare(vb) * dir
CompareStrings(va, vb, dir) ==
  (IF va.n < vb.n THEN -1 ELSE IF va.n > vb.n THEN 1 ELSE 0) * dir

\* a comparator that orders defined values the same way in both directions
CompareNullsLastNoDir(va, vb, dir) ==
  IF IsNullish(va) /\ IsNullish(vb) THEN 0
  ELSE IF IsNullish(va) THEN 1
  ELSE IF IsNullish(vb) THEN -1
  ELSE IF va = vb THEN 0
  ELSE IF JsGt(va, vb) THEN 1 ELSE -1

\* the comparator of sortedBreakdownRows, and of UberAdsPanel for two values
\* that are not both strings
CompareNullsLast(va, vb, dir) ==
  IF IsNullish(va) /\ IsNullish(vb) THEN 0
  ELSE IF IsNullish(va) THEN 1
  ELSE IF IsNullish(vb) THEN -1
  ELSE IF va = vb THEN 0
  ELSE IF JsGt(va, vb) THEN dir ELSE -dir

\* the comparator of PlatformMatrix for two values that are not both strings
CompareValues(va, vb, dir) ==
  IF va = vb THEN 0
  ELSE IF JsGt(va, vb) THEN dir ELSE -dir

SummaryKeys == {"current", "share", "previous", "mom"}
AdsKeys == {"store", "sales", "spend", "dailySpend", "roas", "roasDelta", "cpo"}
MatrixKeys == {"store_name", "revenueCurrent", "revenuePrev", "revenueMom",
               "ordersCurrent", "ordersMom", "aovCurrent", "aovMom"}

\* a[sortKey] of ExecutiveSummary
SummaryValue(row, key) == row[key]

\* getValue of UberAdsPanel
AdsValue(row, key) ==
  CASE key = "store" -> Str(row.store_name)
    [] key = "sales" -> CalcSales(row)
    [] key = "spend" -> Coalesce(row.curr.spend, Null)
    [] key = "dailySpend" -> Coalesce(row.curr.daily_spend, Null)
    [] key = "roas" -> Coalesce(row.curr.roas, Null)
    [] key = "roasDelta" -> Coalesce(row.roas_delta_pct, Null)
    [] key = "cpo" -> Coalesce(row.curr.avg_cost_per_order, Null)

\* getValue of PlatformMatrix
MatrixValue(row, key) ==
  CASE key = "store_name" -> Str(row.store_name)
    [] key = "revenueCurrent" -> row.revenueCurrent
    [] key = "revenuePrev" -> Coalesce(row.revenuePrev, NegInf)
    [] key = "revenueMom" -> Coalesce(row.revenueMom, NegInf)
    [] key = "ordersCurrent" -> row.ordersCurrent
    [] key = "ordersMom" -> Coalesce(row.ordersMom, NegInf)
    [] key = "aovCurrent" -> row.aovCurrent
    [] key = "aovMom" -> Coalesce(row.aovMom, NegInf)

\* the value a table sorts a row by
SortValue(table, row, key) ==
  CASE table = "summary" -> SummaryValue(row, key)
    [] table = "ads" -> AdsValue(row, key)
    [] table = "matrix" -> MatrixValue(row, key)

\* the comparator a table hands to Array.prototype.sort
Compare(table, key, dir, a, b) ==
  LET va == SortValue(table, a, key)
      vb == SortValue(table, b, key)
      f == DirFactor(dir)
  IN  IF table # "summary" /\ va.t = "str" /\ vb.t = "str" THEN CompareStrings(va, vb, f)
      ELSE IF table = "matrix" THEN CompareValues(va, vb, f)
      ELSE CompareNullsLast(va, vb, f)

\* an insertion that puts a row in front of the rows it ties with
RECURSIVE InsertRowUnstable(_, _, _, _, _)
InsertRowUnstable(x, s, table, key, dir) ==
  IF s = <<>> THEN <<x>>
  ELSE IF Compare(table, key, dir, x, s[Len(s)]) > 0 THEN Append(s, x)
  ELSE Append(InsertRowUnstable(x, SubSeq(s, 1, Len(s) - 1), table, key, dir), s[Len(s)])

\* Array.prototype.sort is a stable sort (ECMAScript 2019): over a comparator
\* that is a consistent ordering its result is the one of inserting each row,
\* in input order, behind the rows it does not come before. The comparators
\* are consistent as long as no sort value is NaN.
RECURSIVE InsertRow(_, _, _, _, _)
InsertRow(x, s, table, key, dir) ==
  IF s = <<>> THEN <<x>>
  ELSE IF Compare(table, key, dir, x, s[Len(s)]) >= 0 THEN Append(s, x)
  ELSE Append(InsertRow(x, SubSeq(s, 1, Len(s) - 1), table, key, dir), s[Len(s)])

RECURSIVE SortFrom(_, _, _, _, _, _)
SortFrom(rows, i, acc, table, key, dir) ==
  IF i > Len(rows) THEN acc
  ELSE SortFrom(rows, i + 1, InsertRow(rows[i], acc, table, key, dir), table, key, dir)

\* [...rows].sort(comparator)
SortRows(rows, table, key, dir) == SortFrom(rows, 1, <<>>, table, key, dir)

\* a handleSort whose new key always starts descending
HandleSortStateAlwaysDesc(table, oldKey, oldDir, key) ==
  IF oldKey = key THEN <<key, IF oldDir = "asc" THEN "desc" ELSE "asc">>
  ELSE <<key, "desc">>

\* what handleSort makes of the sort state when the header of key is clicked
HandleSortState(table, oldKey, oldDir, key) ==
  IF oldKey = key THEN <<key, IF oldDir = "asc" THEN "desc" ELSE "asc">>
  ELSE CASE table = "summary" -> <<key, "desc">>
         [] table = "ads" -> <<key, IF key = "store" THEN "asc" ELSE "desc">>
         [] table = "matrix" -> <<key, "asc">>

\* the sort state the table's useState calls start from
InitialSort(table) ==
  CASE table = "summary" -> <<"current", "desc">>
    [] table = "ads" -> <<"spend", "desc">>
    [] table = "matrix" -> <<"revenueCurrent", "desc">>

SortKeys(table) ==
  CASE table = "summary" -> SummaryKeys
    [] table = "ads" -> AdsKeys
    [] table = "matrix" -> MatrixKeys

-----------------------------------------------------------------------------
(* Bounds and input sets *)

\* the longest sales or ads feed of the single-mount scenarios
MaxRows == 2

\* the number of consecutive months of the longest feed
NumMonths == 14

\* the most fetches one hook has in flight at a time
MaxInFlight == 2

SRow(month, region, platform, store, revenue, orders) ==
  [month |-> month, region |-> region, platform |-> platform, store_name |-> store,
   revenue |-> revenue, orders |-> orders]

\* rows of sales_records: two months, two regions, two platforms, two stores, a
\* zero month, a negative revenue, and rows whose numbers are NaN, Infinity or
\* absent
SalesRowU ==
  { SRow(202501, "BC", "UBER", "Alpha", Num(100), Num(10)),
    SRow(202502, "BC", "UBER", "Alpha", Num(120), Num(10)),
    SRow(202502, "BC", "Fantuan", "Alpha", Num(100), Num(10)),
    SRow(202502, "ON", "UBER", "Alpha", Num(100), Num(10)),
    SRow(202502, "BC", "UBER", "Beta", Num(100), Num(10)),
    SRow(202501, "BC", "UBER", "Alpha", Num(0), Num(0)),
    SRow(202502, "BC", "UBER", "Alpha", Num(80), Num(0)),
    SRow(202502, "BC", "UBER", "Alpha", NaN, Num(10)),
    SRow(202502, "BC", "UBER", "Alpha", PosInf, Num(10)),
    SRow(202502, "BC", "UBER", "Alpha", Undef, Undef),
    SRow(202501, "BC", "UBER", "Alpha", NaN, NaN),
    SRow(202501, "BC", "UBER", "Alpha", Null, PosInf),
    SRow(202502, "BC", "Fantuan", "Alpha", Num(-150), Num(5)) }

SeqsUpTo(S, n) == UNION {[1..k -> S] : k \in 0..n}

SalesFeeds == SeqsUpTo(SalesRowU, MaxRows)

\* the k-th month counted from January 2024
MonthAt(k) == (2024 + (k - 1) \div 12) * 100 + ((k - 1) % 12) + 1

\* one row per month for n consecutive months, the last month given twice
LongFeed(n) ==
  [k \in 1..(n + 1) |->
     LET j == IF k > n THEN n ELSE k
     IN  SRow(MonthAt(j), "BC", "UBER", "Alpha", Num(100 + 20 * (j % 2)), Num(10))]

LongFeeds == {LongFeed(n) : n \in YoyOffset..NumMonths}

ShortMonths == {NoMonth, 202501, 202502, 202503}
LongMonths == {MonthAt(k) : k \in 1..NumMonths}

\* a feed of two regions, one of them on two platforms, over two months
RegionFeeds ==
  { <<SRow(202502, "BC", "UBER", "Alpha", Num(120), Num(10)),
      SRow(202502, "BC", "Fantuan", "Alpha", Num(100), Num(10)),
      SRow(202502, "ON", "UBER", "Alpha", Num(100), Num(10)),
      SRow(202501, "BC", "UBER", "Alpha", Num(100), Num(10))>> }

\* the feeds of the scenarios in which the selection changes
LiveFeeds ==
  { <<>>,
    <<SRow(202501, "BC", "UBER", "Alpha", Num(100), Num(10))>>,
    <<SRow(202502, "BC", "UBER", "Alpha", Num(120), Num(10)),
      SRow(202501, "BC", "UBER", "Alpha", Num(100), Num(10)),
      SRow(202502, "ON", "Fantuan", "Beta", Num(100), Num(10))>> }

LiveMonths == {NoMonth, 202501, 202502}

ARow(region, store, month, sales, spend, roas, orders, cpo) ==
  [region |-> region, store_name |-> store, month_date |-> month, sales |-> sales,
   spend |-> spend, roas |-> roas, orders |-> orders, avg_cost_per_order |-> cpo]

\* rows of uber_ads_metrics
AdsRowU ==
  { ARow("BC", "Alpha", 202502, Num(200), Num(100), Num(2), Num(10), Num(10)),
    ARow("BC", "Alpha", 202501, Num(150), Num(50), Num(3), Num(5), Num(10)),
    ARow("BC", "Alpha", 202501, Num(0), Num(0), Num(0), Num(0), Null),
    ARow("BC", "Alpha", 202502, Null, Null, Null, Null, Null),
    ARow("BC", "Beta", 202502, Num(120), Num(60), Num(2), Num(6), Num(10)),
    ARow("BC", "Beta", 202502, Null, Num(60), Null, Num(6), Num(10)),
    ARow("ON", "Alpha", 202502, Num(100), Num(50), Num(2), Num(5), Num(10)),
    ARow("BC", "Alpha", 202402, Num(290), Num(58), Num(5), Num(29), Num(2)),
    ARow("BC", "Alpha", 202504, Num(180), Num(60), Num(3), Num(6), Num(10)) }

AdsFeeds == SeqsUpTo(AdsRowU, MaxRows)

AdsParams ==
  { <<"BC", 202502, 202501>>, <<"BC", 202502, NoMonth>>, <<"BC", 202501, NoMonth>>,
    <<"ON", 202502, 202501>>, <<"", 202502, 202501>>, <<"BC", NoMonth, NoMonth>>,
    <<"BC", 202402, NoMonth>>, <<"BC", 202504, 202502>> }

\* the sales rows behind the sortable tables of ExecutiveSummary and
\* PlatformMatrix: ties between platforms and between stores, a platform and a
\* store without a previous month, a previous month of zero; no NaN
SortSalesBase ==
  << SRow(202501, "BC", "UBER", "Alpha", Num(100), Num(10)),
     SRow(202501, "BC", "Doordash", "Beta", Num(0), Num(0)),
     SRow(202502, "BC", "UBER", "Alpha", Num(120), Num(10)),
     SRow(202502, "BC", "Fantuan", "Beta", Num(120), Num(12)),
     SRow(202502, "BC", "Doordash", "Gamma", Num(60), Num(10)),
     SRow(202501, "BC", "Fantuan", "Gamma", Num(100), Num(10)),
     SRow(202502, "BC", "UBER", "Delta", Num(60), Num(10)) >>

\* the ads rows behind the sortable table of UberAdsPanel
SortAdsBase ==
  << ARow("BC", "Alpha", 202502, Num(200), Num(100), Num(2), Num(10), Num(10)),
     ARow("BC", "Alpha", 202501, Num(150), Num(50), Num(3), Num(5), Num(10)),
     ARow("BC", "Beta", 202502, Null, Num(100), Null, Num(6), Num(10)),
     ARow("BC", "Gamma", 202502, Num(120), Null, Num(2), Num(6), Null),
     ARow("BC", "Gamma", 202501, Num(120), Num(60), Num(2), Num(6), Num(10)),
     ARow("BC", "Delta", 202502, Num(80), Null, Num(4), Num(4), Null) >>

\* the feeds made of some of the rows of base, in the order of base
SubFeeds(base) == {SelectSeq(base, LAMBDA r : r \in S) : S \in SUBSET Range(base)}

SortMonth == 202502
SortPrevMonth == 202501

\* the arguments the delta helpers are applied to
DeltaVals ==
  {Null, NaN, PosInf, NegInf, Num(0), Num(100), Num(120), Num(80), Num(-50), Rat(25, 2)}

-----------------------------------------------------------------------------
(* State *)

VARIABLES
  mounted,         \* the consumer under study: "dashboard", "matrix", "ads",
                   \* "table" (a sortable table), "app" (App itself) or "none"
  db,              \* the rows of sales_records in the external store
  adsDb,           \* the rows of uber_ads_metrics in the external store
  selectedMonth,   \* the selectedMonth / currentMonthIso argument (NoMonth: null)
  selectedRegion,  \* the selectedRegion / region argument
  platformFilter,  \* the platformFilter argument of usePlatformMatrix
  prevMonthIso,    \* the prevMonthIso argument of useUberAdsMetrics
  dash,            \* the state of useDashboardData
  dashReqs,        \* the loads of useDashboardData awaiting their response
  pm,              \* the state of usePlatformMatrix
  pmReq,           \* TRUE while the fetch of usePlatformMatrix awaits its response
  ads,             \* the state of useUberAdsMetrics
  adsReqs,         \* the loads of useUberAdsMetrics awaiting their response
  deltaIn,         \* the <<current, previous>> pair given to the delta helpers
  deltaOut,        \* their results, <<>> before they are applied
  sortTable,       \* the sortable table: "summary", "ads", "matrix" or "none"
  sortRows,        \* the rows the table is given, in the order it is given them
  sortKey,         \* the table's sort key
  sortDir,         \* the table's sort direction, "asc" or "desc"
  app              \* the session, role and render state of App

vars == <<mounted, db, adsDb, selectedMonth, selectedRegion, platformFilter, prevMonthIso,
          dash, dashReqs, pm, pmReq, ads, adsReqs, deltaIn, deltaOut,
          sortTable, sortRows, sortKey, sortDir, app>>

propVars == <<selectedMonth, selectedRegion, platformFilter, prevMonthIso>>
dashVars == <<dash, dashReqs>>
matrixVars == <<pm, pmReq>>
adsVars == <<ads, adsReqs>>
deltaVars == <<deltaIn, deltaOut>>
sortVars == <<sortTable, sortRows, sortKey, sortDir>>

\* a hook that is not mounted holds its initial state and has no fetch in flight
DashIdle == dash = DashInitial /\ dashReqs = {}
MatrixIdle == pm = MatrixInitial /\ pmReq = FALSE /\ platformFilter = "ALL"
AdsIdle == ads = AdsInitial /\ adsReqs = {} /\ adsDb = <<>> /\ prevMonthIso = NoMonth
DeltaIdle == deltaIn = <<Null, Null>> /\ deltaOut = <<>>
SortIdle == sortTable = "none" /\ sortRows = <<>> /\ sortKey = "" /\ sortDir = ""
AppIdle == app = <<>>

\* the first effect of useDashboardData: load() sets loading and issues its fetch
DashMount ==
  /\ dash = DashInitial
  /\ dashReqs = {[month |-> selectedMonth, region |-> selectedRegion]}

\* usePlatformMatrix after its two mount effects: the fetch is issued, and the
\* computation over the still empty months clears its outputs
MatrixMount ==
  /\ pm = MatrixEffect(MatrixInitial, selectedMonth, selectedRegion, platformFilter)
  /\ pmReq = TRUE

\* the effect of useUberAdsMetrics for the arguments (region, cur, prev), from
\* state st: an empty region or month clears the rows, otherwise load() starts
AdsEffectState(st, region, cur) ==
  IF region = "" \/ cur = NoMonth THEN [st EXCEPT !.rows = <<>>]
  ELSE [st EXCEPT !.loading = TRUE, !.error = "none"]

AdsEffectReqs(region, cur, prev) ==
  IF region = "" \/ cur = NoMonth THEN {}
  ELSE {[region |-> region, cur |-> cur, prev |-> prev, cancelled |-> FALSE]}

AdsMount ==
  /\ ads = AdsEffectState(AdsInitial, selectedRegion, selectedMonth)
  /\ adsReqs = AdsEffectReqs(selectedRegion, selectedMonth, prevMonthIso)

InitDelta ==
  /\ mounted = "none"
  /\ deltaIn \in DeltaVals \X DeltaVals
  /\ deltaOut = <<>>
  /\ selectedMonth = NoMonth /\ selectedRegion = "BC"
  /\ db = <<>>
  /\ DashIdle /\ MatrixIdle /\ AdsIdle /\ SortIdle /\ AppIdle

\* one mount of one hook with fixed arguments, over every feed of the bounds
InitData ==
  \/ /\ mounted = "dashboard"
     /\ \/ db \in SalesFeeds \cup RegionFeeds /\ selectedMonth \in ShortMonths
        \/ db \in LongFeeds /\ selectedMonth \in LongMonths
     /\ selectedRegion \in {"BC", "ON", ""}
     /\ DashMount
     /\ MatrixIdle /\ AdsIdle /\ DeltaIdle /\ SortIdle /\ AppIdle
  \/ /\ mounted = "matrix"
     /\ \/ db \in SalesFeeds /\ selectedMonth \in ShortMonths
        \/ db \in LongFeeds /\ selectedMonth \in LongMonths
     /\ selectedRegion \in {"BC", "ON"}
     /\ platformFilter \in {"ALL", "UBER", "Fantuan"}
     /\ MatrixMount
     /\ DashIdle /\ AdsIdle /\ DeltaIdle /\ SortIdle /\ AppIdle
  \/ /\ mounted = "ads"
     /\ adsDb \in AdsFeeds
     /\ \E p \in AdsParams :
          selectedRegion = p[1] /\ selectedMonth = p[2] /\ prevMonthIso = p[3]
     /\ AdsMount
     /\ db = <<>>
     /\ DashIdle /\ MatrixIdle /\ DeltaIdle /\ SortIdle /\ AppIdle

\* a mounted hook whose arguments change while it runs, over a few feeds
InitLive ==
  \/ /\ mounted = "dashboard"
     /\ db \in LiveFeeds
     /\ selectedMonth = NoMonth /\ selectedRegion = "BC"
     /\ DashMount
     /\ MatrixIdle /\ AdsIdle /\ DeltaIdle /\ SortIdle /\ AppIdle
  \/ /\ mounted = "matrix"
     /\ db \in LiveFeeds
     /\ selectedMonth = NoMonth /\ selectedRegion = "BC" /\ platformFilter = "ALL"
     /\ MatrixMount
     /\ DashIdle /\ AdsIdle /\ DeltaIdle /\ SortIdle /\ AppIdle
  \/ /\ mounted = "ads"
     /\ adsDb \in {f \in AdsFeeds : Len(f) <= 1}
     /\ selectedRegion = "BC" /\ selectedMonth = NoMonth /\ prevMonthIso = NoMonth
     /\ AdsMount
     /\ db = <<>>
     /\ DashIdle /\ MatrixIdle /\ DeltaIdle /\ SortIdle /\ AppIdle

-----------------------------------------------------------------------------
(* Actions *)

FetchError == "fetch failed"
NoDataError == "No data found in sales_records"

\* .select('month, region, platform, revenue, orders').order('month')
DashQuery(table) ==
  LET cols == [i \in 1..Len(table) |->
                 [month |-> table[i].month, region |-> table[i].region,
                  platform |-> table[i].platform, revenue |-> table[i].revenue,
                  orders |-> table[i].orders]]
  IN  SortByRank(cols, [r \in Range(cols) |-> r.month])

\* what load() of useDashboardData does with a response: st is the state it
\* finds, failed tells whether the query returned an error, rows is its data
DashAfterResponse(st, req, failed, rows) ==
  IF failed THEN [st EXCEPT !.loading = FALSE, !.error = FetchError]
  ELSE IF Len(rows) = 0 THEN [st EXCEPT !.loading = FALSE, !.error = NoDataError]
  ELSE DashLoaded(rows, req.month, req.region)

\* the response of one load of useDashboardData arrives
DashRespond ==
  /\ mounted = "dashboard"
  /\ \E req \in dashReqs, failed \in BOOLEAN :
       /\ dash' = DashAfterResponse(dash, req, failed, DashQuery(db))
       /\ dashReqs' = dashReqs \ {req}
  /\ UNCHANGED <<mounted, db, adsDb, propVars, matrixVars, adsVars, deltaVars, sortVars, app>>

\* the selected month or region changes: the effect runs load() again, which
\* sets loading and issues a fetch for the new arguments
DashSelect ==
  /\ mounted = "dashboard"
  /\ Cardinality(dashReqs) < MaxInFlight
  /\ \E m \in LiveMonths, r \in {"BC", "ON"} :
       /\ <<m, r>> # <<selectedMonth, selectedRegion>>
       /\ selectedMonth' = m
       /\ selectedRegion' = r
       /\ dashReqs' = dashReqs \cup {[month |-> m, region |-> r]}
  /\ dash' = [dash EXCEPT !.loading = TRUE, !.error = "none"]
  /\ UNCHANGED <<mounted, db, adsDb, platformFilter, prevMonthIso, matrixVars, adsVars,
                 deltaVars, sortVars, app>>

\* the external store loses its sales rows
StoreCleared ==
  /\ mounted \in {"dashboard", "matrix"}
  /\ db # <<>>
  /\ db' = <<>>
  /\ UNCHANGED <<mounted, adsDb, propVars, dashVars, matrixVars, adsVars, deltaVars, sortVars, app>>

\* what load() of usePlatformMatrix does with its response, followed by the
\* second effect, which months and rawRows trigger
MatrixAfterResponse(st, failed, data, selMonth, selRegion, filter) ==
  IF failed THEN [st EXCEPT !.error = FetchError, !.loading = FALSE]
  ELSE MatrixEffect([st EXCEPT !.months = MonthsOf(Casted(data)),
                               !.rawRows = Casted(data),
                               !.loading = FALSE],
                    selMonth, selRegion, filter)

\* the response of the one fetch of usePlatformMatrix arrives
MatrixRespond ==
  /\ mounted = "matrix"
  /\ pmReq
  /\ \E failed \in BOOLEAN :
       pm' = MatrixAfterResponse(pm, failed, db, selectedMonth, selectedRegion,
                                 platformFilter)
  /\ pmReq' = FALSE
  /\ UNCHANGED <<mounted, db, adsDb, propVars, dashVars, adsVars, deltaVars, sortVars, app>>

\* the month, region or platform filter changes: the second effect runs again
MatrixSelect ==
  /\ mounted = "matrix"
  /\ \E m \in LiveMonths, r \in {"BC", "ON"}, f \in {"ALL", "UBER"} :
       /\ <<m, r, f>> # <<selectedMonth, selectedRegion, platformFilter>>
       /\ selectedMonth' = m
       /\ selectedRegion' = r
       /\ platformFilter' = f
       /\ pm' = MatrixEffect(pm, m, r, f)
  /\ UNCHANGED <<mounted, db, adsDb, prevMonthIso, pmReq, dashVars, adsVars, deltaVars, sortVars, app>>

\* a load that applies its response although it was cancelled
AdsAfterResponseNoCancel(st, req, failed, table) ==
  IF failed THEN [loading |-> FALSE, error |-> FetchError, rows |-> <<>>]
  ELSE [loading |-> FALSE, error |-> "none",
        rows |-> AdsRows(AdsQuery(table, req.region, req.cur, req.prev),
                         req.cur, req.prev)]

\* what load() of useUberAdsMetrics does with a response
AdsAfterResponse(st, req, failed, table) ==
  IF req.cancelled THEN st
  ELSE IF failed THEN [loading |-> FALSE, error |-> FetchError, rows |-> <<>>]
  ELSE [loading |-> FALSE, error |-> "none",
        rows |-> AdsRows(AdsQuery(table, req.region, req.cur, req.prev),
                         req.cur, req.prev)]

\* the response of one load of useUberAdsMetrics arrives
AdsRespond ==
  /\ mounted = "ads"
  /\ \E req \in adsReqs, failed \in BOOLEAN :
       /\ ads' = AdsAfterResponse(ads, req, failed, adsDb)
       /\ adsReqs' = adsReqs \ {req}
  /\ UNCHANGED <<mounted, db, adsDb, propVars, dashVars, matrixVars, deltaVars, sortVars, app>>

\* region, currentMonthIso or prevMonthIso changes: the cleanup of the previous
\* effect cancels its load, then the effect runs for the new arguments
AdsChange ==
  /\ mounted = "ads"
  /\ Cardinality(adsReqs) < MaxInFlight
  /\ \E p \in AdsParams :
       /\ p # <<selectedRegion, selectedMonth, prevMonthIso>>
       /\ selectedRegion' = p[1]
       /\ selectedMonth' = p[2]
       /\ prevMonthIso' = p[3]
       /\ ads' = AdsEffectState(ads, p[1], p[2])
       /\ adsReqs' = {[q EXCEPT !.cancelled = TRUE] : q \in adsReqs}
                       \cup AdsEffectReqs(p[1], p[2], p[3])
  /\ UNCHANGED <<mounted, db, adsDb, platformFilter, dashVars, matrixVars, deltaVars, sortVars, app>>

\* the rows a table is given once its hook has loaded the store for the month
\* SortMonth of region BC: breakdownRows of ExecutiveSummary for the active
\* metric, the rows of usePlatformMatrix, the rows of useUberAdsMetrics
TableRows(table, sales, adsTable, metric) ==
  CASE table = "summary" ->
         LET d == DashLoaded(DashQuery(sales), SortMonth, "BC")
         IN  BreakdownRows(d.rawRows, d.allMonths, SortMonth, "BC", metric)
    [] table = "matrix" ->
         MatrixAfterResponse(MatrixInitial, FALSE, sales, SortMonth, "BC", "ALL").rows
    [] table = "ads" ->
         AdsAfterResponse(AdsInitial,
                          [region |-> "BC", cur |-> SortMonth, prev |-> SortPrevMonth,
                           cancelled |-> FALSE],
                          FALSE, adsTable).rows

\* a sortable table in its initial sort state over the rows of a loaded hook;
\* of the hook only the rows it handed to the table are kept
InitSort ==
  /\ mounted = "table"
  /\ selectedMonth = SortMonth /\ selectedRegion = "BC"
  /\ \/ /\ sortTable = "summary"
        /\ db \in SubFeeds(SortSalesBase) \ {<<>>}
        /\ adsDb = <<>> /\ prevMonthIso = NoMonth
        /\ \E metric \in Metrics : sortRows = TableRows("summary", db, adsDb, metric)
     \/ /\ sortTable = "matrix"
        /\ db \in SubFeeds(SortSalesBase)
        /\ adsDb = <<>> /\ prevMonthIso = NoMonth
        /\ sortRows = TableRows("matrix", db, adsDb, "revenue")
     \/ /\ sortTable = "ads"
        /\ db = <<>>
        /\ adsDb \in SubFeeds(SortAdsBase) /\ prevMonthIso = SortPrevMonth
        /\ sortRows = TableRows("ads", db, adsDb, "revenue")
  /\ sortKey = InitialSort(sortTable)[1]
  /\ sortDir = InitialSort(sortTable)[2]
  /\ DashIdle /\ pm = MatrixInitial /\ pmReq = FALSE /\ platformFilter = "ALL"
  /\ ads = AdsInitial /\ adsReqs = {} /\ DeltaIdle /\ AppIdle

\* a column header is clicked: handleSort
HandleSort ==
  /\ mounted = "table"
  /\ \E key \in SortKeys(sortTable) :
       LET next == HandleSortState(sortTable, sortKey, sortDir, key)
       IN  sortKey' = next[1] /\ sortDir' = next[2]
  /\ UNCHANGED <<mounted, db, adsDb, propVars, dashVars, matrixVars, adsVars, deltaVars,
                 sortTable, sortRows, app>>

\* role ?? 'ALL'
EffectiveRole(role) == IF role = "null" THEN "ALL" ELSE role

AppRegions == {"BC", "ON", "CA"}
AppRoles == {"ALL", "BC", "ON", "CA"}

\* allowedRegions of App
AllowedRegions(role) ==
  IF EffectiveRole(role) = "ALL" THEN AppRegions ELSE {EffectiveRole(role)}

\* the months App finds in allMonths once useDashboardData has loaded
AppMonths == <<202501, 202502>>

\* the state of App before its first render; region and month stand for
\* selectedRegion and selectedMonth while a handler runs. roleSeen and dashDeps
\* are the dependencies the role effect and the effect of useDashboardData ran
\* with last, panel the arguments of the mounted UberAdsPanel (<<>>: not
\* mounted), issued the queries the running handler has issued so far.
AppBeforeMount ==
  [session |-> FALSE, role |-> "null", authLoading |-> TRUE,
   dashLoading |-> TRUE, dashLoads |-> 0, haveData |-> FALSE,
   panel |-> <<>>, roleSeen |-> "", dashDeps |-> <<>>, issued |-> {},
   region |-> "BC", month |-> NoMonth]

\* App renders the main dashboard, and with it UberAdsPanel
MainShown(w) ==
  /\ ~w.authLoading /\ w.session
  /\ ~w.dashLoading /\ w.haveData /\ w.month # NoMonth

\* one render of App and the effects of its commit: the effect of a mounted
\* UberAdsPanel (a child), then the role lock, the effect of useDashboardData
\* and the initialisation of the month, each for the values of this render
Commit(w) ==
  LET eff == EffectiveRole(w.role)
      panelNow == IF MainShown(w) THEN <<w.region, w.month>> ELSE <<>>
      adsQuery == IF MainShown(w) /\ panelNow # w.panel
                  THEN {[hook |-> "ads", role |-> eff, region |-> w.region]} ELSE {}
      locks == eff # w.roleSeen /\ eff # "ALL" /\ w.region # eff
      loads == <<w.month, w.region>> # w.dashDeps
      dashQuery == IF loads THEN {[hook |-> "dashboard", role |-> eff, region |-> w.region]}
                   ELSE {}
      picksMonth == w.haveData /\ w.month = NoMonth
  IN  [w EXCEPT !.panel = panelNow,
                !.roleSeen = eff,
                !.region = IF locks THEN eff ELSE @,
                !.dashDeps = <<w.month, w.region>>,
                !.dashLoading = IF loads THEN TRUE ELSE @,
                !.dashLoads = IF loads THEN @ + 1 ELSE @,
                !.month = IF picksMonth THEN AppMonths[Len(AppMonths)] ELSE @,
                !.issued = @ \cup adsQuery \cup dashQuery]

\* the renders that follow a state update, until no effect updates the state
RECURSIVE Settle(_)
Settle(w) == LET next == Commit(w) IN IF next = w THEN w ELSE Settle(next)

\* the state of App a handler starts from and the state it leaves
Working == [f \in DOMAIN app \cup {"region", "month"} |->
              CASE f = "region" -> selectedRegion
                [] f = "month" -> selectedMonth
                [] f = "issued" -> {}
                [] OTHER -> app[f]]
Settled(w) == [f \in DOMAIN w \ {"region", "month"} |-> w[f]]

\* setRole(role) and setAuthLoading(false) after the await of the role query:
\* rendered together where React batches updates outside event handlers
\* (React 18 createRoot), one after the other where it does not
RoleArrives(w, role, batched) ==
  IF batched THEN Settle([w EXCEPT !.role = role, !.authLoading = FALSE])
  ELSE Settle([Settle([w EXCEPT !.role = role]) EXCEPT !.authLoading = FALSE])

\* App is mounted: its first render and the effects of the first commit
InitApp ==
  /\ mounted = "app"
  /\ LET w == Settle(AppBeforeMount)
     IN  app = Settled(w) /\ selectedRegion = w.region /\ selectedMonth = w.month
  /\ db = <<>>
  /\ DashIdle /\ MatrixIdle /\ AdsIdle /\ DeltaIdle /\ SortIdle

AppLeaves(w) ==
  /\ app' = Settled(w)
  /\ selectedRegion' = w.region
  /\ selectedMonth' = w.month
  /\ UNCHANGED <<mounted, db, adsDb, platformFilter, prevMonthIso, dashVars, matrixVars,
                 adsVars, deltaVars, sortVars>>

\* init() ends: there is no session, or there is one and its role is read
SessionChecked ==
  /\ mounted = "app"
  /\ app.authLoading
  /\ \/ AppLeaves(Settle([Working EXCEPT !.authLoading = FALSE]))
     \/ \E role \in AppRoles, batched \in BOOLEAN :
          AppLeaves(RoleArrives(Settle([Working EXCEPT !.session = TRUE]), role, batched))

\* handleLogin with an account that signs in
Login ==
  /\ mounted = "app"
  /\ ~app.authLoading /\ ~app.session
  /\ app.dashLoads < MaxInFlight
  /\ \E role \in AppRoles, batched \in BOOLEAN :
       AppLeaves(RoleArrives(
         Settle([Settle([Working EXCEPT !.authLoading = TRUE]) EXCEPT !.session = TRUE]),
         role, batched))

\* handleLogout
Logout ==
  /\ mounted = "app"
  /\ ~app.authLoading /\ app.session
  /\ \E batched \in BOOLEAN :
       AppLeaves(IF batched
                 THEN Settle([Working EXCEPT !.session = FALSE, !.role = "null"])
                 ELSE Settle([Settle([Working EXCEPT !.session = FALSE])
                                EXCEPT !.role = "null"]))

\* a load of useDashboardData gets its rows
AppDataArrives ==
  /\ mounted = "app"
  /\ app.dashLoads > 0
  /\ AppLeaves(Settle([Working EXCEPT !.dashLoads = @ - 1, !.dashLoading = FALSE,
                                      !.haveData = TRUE]))

\* the filter bar is rendered
FiltersShown == ~app.authLoading /\ app.session /\ ~app.dashLoading /\ app.haveData

\* a region button is clicked: a disabled button does nothing
ClickRegion ==
  /\ mounted = "app"
  /\ FiltersShown
  /\ app.dashLoads < MaxInFlight
  /\ \E region \in AppRegions :
       AppLeaves(IF region \in AllowedRegions(app.role)
                 THEN Settle([Working EXCEPT !.region = region])
                 ELSE Working)

\* a month is picked in the select
PickMonth ==
  /\ mounted = "app"
  /\ FiltersShown
  /\ app.dashLoads < MaxInFlight
  /\ \E i \in 1..Len(AppMonths) : AppLeaves(Settle([Working EXCEPT !.month = AppMonths[i]]))

NextApp == SessionChecked \/ Login \/ Logout \/ AppDataArrives \/ ClickRegion \/ PickMonth

\* the delta helpers and the inline deltas applied to one pair of arguments
DeltaResults(curr, prev) ==
  [dash |-> CalcMomDash(curr, prev), matrix |-> CalcMomMatrix(curr, prev),
   ads |-> CalcMomAds(curr, prev), inline |-> InlineDelta(curr, prev),
   row |-> AdsDelta(curr, prev)]

ApplyDelta ==
  /\ mounted = "none"
  /\ deltaOut = <<>>
  /\ deltaOut' = <<DeltaResults(deltaIn[1], deltaIn[2])>>
  /\ UNCHANGED <<mounted, db, adsDb, propVars, dashVars, matrixVars, adsVars, deltaIn, sortVars, app>>

NextDelta == ApplyDelta
NextSort == HandleSort
NextData == DashRespond \/ MatrixRespond \/ AdsRespond
NextLive ==
  \/ DashRespond \/ DashSelect \/ StoreCleared
  \/ MatrixRespond \/ MatrixSelect
  \/ AdsRespond \/ AdsChange

\* the delta helpers over every pair of DeltaVals
SpecDelta == InitDelta /\ [][NextDelta]_vars
\* each hook mounted once with fixed arguments, over every feed of the bounds
SpecData == InitData /\ [][NextData]_vars
\* each hook with its arguments changing while fetches are in flight
SpecLive == InitLive /\ [][NextLive]_vars

\* each sortable table over the rows of a loaded hook, its headers being clicked
SpecSort == InitSort /\ [][NextSort]_vars

\* App from its mount on: sessions, roles and the region and month filters
SpecApp == InitApp /\ [][NextApp]_vars

Init == InitDelta \/ InitData \/ InitLive \/ InitSort \/ InitApp
Next == ApplyDelta \/ NextLive \/ HandleSort \/ NextApp
Spec == Init /\ [][Next]_vars

-----------------------------------------------------------------------------
(* Claims about the delta helpers (SpecDelta) *)

Applied == deltaOut # <<>>
DeltaCur == deltaIn[1]
DeltaPrev == deltaIn[2]

\* the results of the three calcMom helpers
CalcMomResults == {deltaOut[1].dash, deltaOut[1].matrix, deltaOut[1].ads}
\* those and the inline deltas of ExecutiveSummary and useUberAdsMetrics
AllDeltaResults == CalcMomResults \cup {deltaOut[1].inline, deltaOut[1].row}

\* r is exactly (c - p) / p, for finite c and finite p # 0: r * p = c - p
IsFractionOf(r, c, p) ==
  /\ r.t = "num"
  /\ r.d > 0
  /\ r.n * (c.d * p.n) = (c.n * p.d - p.n * c.d) * r.d

\* what IEEE arithmetic gives for (c - p) / p when c or p is not finite
NonFiniteDelta(c, p) ==
  IF c.t = "nan" \/ p.t = "nan" \/ p.t \in {"inf", "ninf"} THEN NaN
  ELSE IF (c.t = "inf") = (p.n > 0) THEN PosInf ELSE NegInf

\* C1: every calcMom returns null whenever current or previous is null, NaN or
\* not finite, or previous is 0.
C1_NullOnBadArguments ==
  Applied /\ (~IsFinite(DeltaCur) \/ ~IsFinite(DeltaPrev) \/ IsZero(DeltaPrev))
    => \A r \in CalcMomResults : r = Null

-----------------------------------------------------------------------------
(* The outputs the claims are about *)

\* useDashboardData holds the result of a successful load
DashReady == mounted = "dashboard" /\ ~dash.loading /\ dash.error = "none"
             /\ dash.revenueKpi # NoKpi

\* App renders ExecutiveSummary: !loading && !error && the KPIs && selectedMonth
ESVisible == DashReady /\ selectedMonth # NoMonth

\* breakdownRows of the rendered ExecutiveSummary for one active metric
ESRows(metric) ==
  BreakdownRows(dash.rawRows, dash.allMonths, selectedMonth, selectedRegion, metric)

\* usePlatformMatrix holds the rows of its fetch
MatrixReady == mounted = "matrix" /\ ~pm.loading /\ pm.error = "none"

\* useUberAdsMetrics holds the rows of a successful load
AdsReady == mounted = "ads" /\ ~ads.loading /\ ads.error = "none"

\* the card, regional and platform KPIs of useDashboardData, as a set of Kpi
DashKpis ==
  {dash.revenueKpi, dash.ordersKpi, dash.aovKpi}
    \cup UNION {{k.revenue, k.orders, k.aov} : k \in Range(dash.regionalKpis)}
    \cup UNION {{k.revenue, k.orders, k.aov} : k \in Range(dash.platformKpis)}

\* the <<current, previous, mom>> triples of the rows of usePlatformMatrix
MatrixTriples ==
  UNION {{<<r.revenueCurrent, r.revenuePrev, r.revenueMom>>,
          <<r.ordersCurrent, r.ordersPrev, r.ordersMom>>,
          <<r.aovCurrent, r.aovPrev, r.aovMom>>} : r \in Range(pm.rows)}

\* the <<current, previous, delta>> triples of the rows of useUberAdsMetrics
AdsTriples ==
  UNION {{<<r.curr.spend, r.prev.spend, r.spend_delta_pct>>,
          <<r.curr.roas, r.prev.roas, r.roas_delta_pct>>} : r \in Range(ads.rows)}

\* the value a breakdown row compares against for the year-ago period, null
\* when the period index has no such period
YearAgoValue(key, metric) ==
  LET m == YoyMonthSelection(dash.allMonths, selectedMonth)
      mine == SelectSeq(dash.rawRows,
                LAMBDA r : r.month = m /\ r.region = selectedRegion /\ r.platform = key)
  IN  IF m = NoMonth THEN Null
      ELSE PickMetric([revenue |-> SumValues([i \in 1..Len(mine) |->
                                      OrZero(ToNumber(mine[i].revenue))], 1, Num(0)),
                       orders |-> SumValues([i \in 1..Len(mine) |->
                                      OrZero(ToNumber(mine[i].orders))], 1, Num(0))],
                      metric)

ExistsNonZero(v) == ~IsNullish(v) /\ ~IsZero(v)

-----------------------------------------------------------------------------
(* Claims about the rows of one mount (SpecData) *)

\* C2: in every comparison row (ExecutiveSummary breakdown, platform matrix, ad
\* metrics) mom is non-null only if current and previous both exist and previous
\* is not 0, and yoy is non-null only if current and the year-ago value both
\* exist and the year-ago value is not 0.
C2_DeltaOnlyWithBaseline ==
  /\ ESVisible =>
       \A metric \in Metrics : \A r \in Range(ESRows(metric)) :
         /\ r.mom # Null => ~IsNullish(r.current) /\ ExistsNonZero(r.previous)
         /\ r.yoy # Null => ~IsNullish(r.current)
                            /\ ExistsNonZero(YearAgoValue(r.key, metric))
  /\ MatrixReady =>
       \A t \in MatrixTriples : t[3] # Null => ~IsNullish(t[1]) /\ ExistsNonZero(t[2])
  /\ AdsReady =>
       \A t \in AdsTriples : t[3] # Null => ~IsNullish(t[1]) /\ ExistsNonZero(t[2])

\* a breakdown row with both deltas, next to a zero baseline elsewhere
C2_Witness ==
  /\ ESVisible
  /\ \E r \in Range(ESRows("revenue")) :
       r.mom # Null /\ r.yoy # Null /\ r.previous # r.current

\* the distinct periods of a row set
Periods(rows) == {rows[i].month : i \in 1..Len(rows)}

\* the revenue and orders KPIs of useDashboardData (the sums, not the ratios)
DashSumKpis ==
  {dash.revenueKpi, dash.ordersKpi}
    \cup UNION {{k.revenue, k.orders} : k \in Range(dash.regionalKpis)}
    \cup UNION {{k.revenue, k.orders} : k \in Range(dash.platformKpis)}

\* C3: when the feed holds exactly one period, every row that is produced (the
\* card, regional and platform KPIs of useDashboardData, the breakdown rows of
\* ExecutiveSummary, the rows of the platform matrix) has previous = null and
\* mom = null.
C3_OnePeriodNoBaseline ==
  /\ DashReady /\ Cardinality(Periods(dash.rawRows)) = 1 =>
       \A k \in DashKpis : k.previous = Null /\ k.mom = Null
  /\ ESVisible /\ Cardinality(Periods(dash.rawRows)) = 1 =>
       \A metric \in Metrics : \A r \in Range(ESRows(metric)) :
         r.previous = Null /\ r.mom = Null
  /\ MatrixReady /\ Cardinality(Periods(pm.rawRows)) = 1 =>
       \A t \in MatrixTriples : t[2] = Null /\ t[3] = Null

\* the periods of M before period m
Earlier(M, m) == {x \in M : x < m}

\* the period of M that lies k places before m in ascending order, NoMonth if
\* there is none
PlacesBefore(M, m, k) ==
  IF Cardinality(Earlier(M, m)) < k THEN NoMonth
  ELSE CHOOSE x \in M : x <= m /\ Cardinality({y \in M : x <= y /\ y < m}) = k

\* s lists exactly the periods of M, each once, in ascending order
IsIndexOf(s, M) ==
  /\ Range(s) = M
  /\ \A i, j \in 1..Len(s) : i < j => s[i] < s[j]

\* C5: the period index is the sorted list of the distinct periods of the raw
\* rows; for a selected period at position i of it, the previous period is the
\* one at position i - 1 if i >= 1 and null otherwise, and the year-ago period
\* is the one at position i - 12 if i >= 12 and null otherwise.
C5_PreviousAndYearAgoByPosition ==
  DashReady =>
    LET M == Periods(dash.rawRows)
    IN  /\ IsIndexOf(dash.allMonths, M)
        /\ dash.currentMonth \in M =>
             dash.prevMonth = PlacesBefore(M, dash.currentMonth, 1)
        /\ selectedMonth \in M =>
             /\ PrevMonthSelection(dash.allMonths, selectedMonth)
                  = PlacesBefore(M, selectedMonth, 1)
             /\ YoyMonthSelection(dash.allMonths, selectedMonth)
                  = PlacesBefore(M, selectedMonth, YoyOffset)

\* a selected period that has a year-ago period, in a feed that repeats a period
C5_Witness ==
  /\ ESVisible
  /\ Len(dash.rawRows) > Len(dash.allMonths)
  /\ dash.prevMonth # NoMonth
  /\ YoyMonthSelection(dash.allMonths, selectedMonth) # NoMonth
  /\ YoyMonthSelection(dash.allMonths, selectedMonth) # dash.allMonths[1]

\* C6: when the selected period is not in the period index, every consumer
\* returns an empty comparison set (no KPI and no comparison row for that
\* period) and raises no error.
C6_UnknownPeriodFailsClosed ==
  /\ mounted = "dashboard" /\ ~dash.loading /\ dash.rawRows # <<>>
       /\ selectedMonth # NoMonth /\ selectedMonth \notin Periods(dash.rawRows) =>
       /\ dash.error = "none"
       /\ dash.revenueKpi = NoKpi /\ dash.ordersKpi = NoKpi /\ dash.aovKpi = NoKpi
       /\ dash.regionalKpis = <<>> /\ dash.platformKpis = <<>>
       /\ \A metric \in Metrics : ESRows(metric) = <<>>
  /\ MatrixReady /\ selectedMonth # NoMonth /\ selectedMonth \notin Periods(pm.rawRows) =>
       pm.rows = <<>> /\ pm.trendSeries = <<>> /\ pm.storePlatformShare = <<>>

-----------------------------------------------------------------------------
(* Claims about the fetches (SpecLive) *)

\* C7: when a fetch returns an empty row set, the consumer ends in a "no data"
\* state: loading is false and the period list, the KPIs, the rows and the
\* trend series are all empty, also when an earlier fetch had returned data.
C7_EmptyFetchLeavesNoData ==
  /\ mounted = "dashboard" /\ dash.error = NoDataError =>
       /\ ~dash.loading
       /\ dash.allMonths = <<>> /\ dash.rawRows = <<>>
       /\ dash.revenueKpi = NoKpi /\ dash.ordersKpi = NoKpi /\ dash.aovKpi = NoKpi
       /\ dash.regionalKpis = <<>> /\ dash.platformKpis = <<>>
  /\ MatrixReady /\ pm.rawRows = <<>> =>
       /\ pm.months = <<>> /\ pm.rows = <<>>
       /\ pm.trendMonths = <<>> /\ pm.trendSeries = <<>> /\ pm.storePlatformShare = <<>>

-----------------------------------------------------------------------------
(* Claims about the sums (SpecData) *)

\* the sum of the values f[i] over the index set I, from the last index down
RECURSIVE SumOver(_, _)
SumOver(f, I) ==
  IF I = {} THEN Num(0)
  ELSE LET i == CHOOSE x \in I : \A y \in I : y <= x
       IN  JsAdd(f[i], SumOver(f, I \ {i}))

\* the number a row of useDashboardData / ExecutiveSummary adds for a field
Added(rows, field) ==
  [i \in 1..Len(rows) |->
     OrZero(ToNumber(IF field = "revenue" THEN rows[i].revenue ELSE rows[i].orders))]

\* the number a cast row of usePlatformMatrix adds for a field
Held(rows, field) ==
  [i \in 1..Len(rows) |-> IF field = "revenue" THEN rows[i].revenue ELSE rows[i].orders]

\* the rows of useDashboardData that qualify for a month, a region ("" for
\* every region) and a platform ("" for every platform)
DashQualifying(month, region, platform) ==
  {i \in 1..Len(dash.rawRows) :
     /\ dash.rawRows[i].month = month
     /\ region = "" \/ dash.rawRows[i].region = region
     /\ platform = "" \/ dash.rawRows[i].platform = platform}

\* the rows of usePlatformMatrix that qualify for a month and a store
MatrixQualifying(month, store) ==
  {i \in 1..Len(pm.rawRows) :
     /\ pm.rawRows[i].month = month
     /\ pm.rawRows[i].region = selectedRegion
     /\ pm.rawRows[i].store_name = store
     /\ platformFilter = "ALL" \/ pm.rawRows[i].platform = platformFilter}

\* a Kpi of useDashboardData holds the sums over the rows of the current and
\* of the previous month that qualify for the region and the platform
KpiIsSum(kpi, field, region, platform) ==
  /\ kpi.current = SumOver(Added(dash.rawRows, field),
                           DashQualifying(dash.currentMonth, region, platform))
  /\ kpi.previous = SumOver(Added(dash.rawRows, field),
                            DashQualifying(dash.prevMonth, region, platform))

\* C8: an aggregate for a period set and a filter is the sum of revenue, and of
\* orders, over exactly the raw rows whose period is in the set and that pass
\* the filter: no other row contributes, none is left out or counted twice.
\* (The previous-period aggregate of a breakdown row and of a matrix row is null
\* when there is no previous period, resp. no qualifying row.)
C8_AggregateIsSumOfQualifyingRows ==
  /\ DashReady =>
       /\ KpiIsSum(dash.revenueKpi, "revenue", selectedRegion, "")
       /\ KpiIsSum(dash.ordersKpi, "orders", selectedRegion, "")
       /\ \A k \in Range(dash.regionalKpis) :
            /\ KpiIsSum(k.revenue, "revenue", k.region, "")
            /\ KpiIsSum(k.orders, "orders", k.region, "")
       /\ \A k \in Range(dash.platformKpis) :
            /\ KpiIsSum(k.revenue, "revenue", k.region, k.platform)
            /\ KpiIsSum(k.orders, "orders", k.region, k.platform)
  /\ ESVisible =>
       \A field \in {"revenue", "orders"} : \A r \in Range(ESRows(field)) :
         LET prev == PrevMonthSelection(dash.allMonths, selectedMonth)
         IN  /\ r.current = SumOver(Added(dash.rawRows, field),
                              DashQualifying(selectedMonth, selectedRegion, r.key))
             /\ r.previous = IF prev = NoMonth THEN Null
                             ELSE SumOver(Added(dash.rawRows, field),
                                    DashQualifying(prev, selectedRegion, r.key))
  /\ MatrixReady =>
       \A r \in Range(pm.rows) :
         LET cur == MatrixQualifying(pm.currentMonth, r.store_name)
             prv == MatrixQualifying(pm.prevMonth, r.store_name)
         IN  /\ r.revenueCurrent = SumOver(Held(pm.rawRows, "revenue"), cur)
             /\ r.ordersCurrent = SumOver(Held(pm.rawRows, "orders"), cur)
             /\ r.revenuePrev = IF prv = {} THEN Null
                                ELSE SumOver(Held(pm.rawRows, "revenue"), prv)
             /\ r.ordersPrev = IF prv = {} THEN Null
                               ELSE SumOver(Held(pm.rawRows, "orders"), prv)

\* a regional KPI that adds two of the rows and leaves out a third
C8_Witness ==
  /\ DashReady
  /\ \E k \in Range(dash.regionalKpis) :
       /\ Cardinality(DashQualifying(dash.currentMonth, k.region, "")) = 2
       /\ DashQualifying(dash.prevMonth, k.region, "") # {}
       /\ k.revenue.current.t = "num" /\ k.revenue.current.n > 0
       /\ k.revenue.previous.t = "num" /\ k.revenue.previous.n > 0
       /\ k.revenue.current # k.revenue.previous

\* the per-period aggregates of a period list, added up
RECURSIVE SumPerMonth(_, _, _, _)
SumPerMonth(rawRows, months, pred, i) ==
  IF i > Len(months) THEN EmptyBucket
  ELSE LET one == SumForMonths(rawRows, <<months[i]>>, pred)
           rest == SumPerMonth(rawRows, months, pred, i + 1)
       IN  [revenue |-> JsAdd(one.revenue, rest.revenue),
            orders |-> JsAdd(one.orders, rest.orders)]

\* the filters sumForMonths is called with: the region scope of the cards, the
\* region and platform filter of each breakdown row, and no filter
RowFilters(rawRows) ==
  {[r \in Range(rawRows) |-> TRUE],
   [r \in Range(rawRows) |-> r.region = selectedRegion]}
    \cup {[r \in Range(rawRows) |-> r.region = selectedRegion /\ r.platform = p] :
            p \in {"UBER", "Fantuan"}}

C10_SumsAreFinite ==
  /\ DashReady =>
       \A k \in DashSumKpis : IsFinite(k.current) /\ IsFinite(k.previous)
  /\ MatrixReady =>
       \A r \in Range(pm.rows) :
         /\ IsFinite(r.revenueCurrent) /\ IsFinite(r.ordersCurrent)
         /\ r.revenuePrev # Null => IsFinite(r.revenuePrev)
         /\ r.ordersPrev # Null => IsFinite(r.ordersPrev)

-----------------------------------------------------------------------------
(* Claims about the ratios *)

\* orders > 0 ? revenue / orders : 0, for a bucket of two finite numbers
AovOfBucket(revenue, orders) ==
  IF orders.n > 0 THEN Rat(revenue.n * orders.d, revenue.d * orders.n) ELSE Num(0)

\* the <<revenue, orders, aov>> buckets, current and previous, of the KPIs of
\* useDashboardData and of the rows of usePlatformMatrix
DashBuckets ==
  {<<dash.revenueKpi.current, dash.ordersKpi.current, dash.aovKpi.current>>,
   <<dash.revenueKpi.previous, dash.ordersKpi.previous, dash.aovKpi.previous>>}
    \cup UNION {{<<k.revenue.current, k.orders.current, k.aov.current>>,
                 <<k.revenue.previous, k.orders.previous, k.aov.previous>>} :
                  k \in Range(dash.regionalKpis) \cup Range(dash.platformKpis)}

MatrixBuckets ==
  UNION {{<<r.revenueCurrent, r.ordersCurrent, r.aovCurrent>>,
          <<r.revenuePrev, r.ordersPrev, r.aovPrev>>} : r \in Range(pm.rows)}

\* C11: for every bucket, current or previous, whose revenue and orders are
\* finite numbers, AOV is revenue / orders when orders > 0 and 0 when orders
\* is 0: a finite number, never null.
C11_AovOfEveryBucket ==
  /\ DashReady =>
       \A b \in DashBuckets :
         IsFinite(b[1]) /\ IsFinite(b[2]) => b[3] = AovOfBucket(b[1], b[2])
  /\ MatrixReady =>
       \A b \in MatrixBuckets :
         IsFinite(b[1]) /\ IsFinite(b[2]) => b[3] = AovOfBucket(b[1], b[2])

\* the current and the previous slot of every row of useUberAdsMetrics
AdsSlots == UNION {{r.curr, r.prev} : r \in Range(ads.rows)}

\* C12: a ROAS computed while spend or sales data is missing is null, never 0
\* and never Infinity: the ROAS of a store slot that lacks spend or sales, and
\* the average ROAS of the panel when no row of the period has sales data.
C12_RoasNullWhenDataMissing ==
  AdsReady =>
    /\ \A slot \in AdsSlots :
         IsNullish(slot.spend) \/ IsNullish(slot.sales) => slot.roas = Null
    /\ ads.rows # <<>> /\ (\A r \in Range(ads.rows) :
                             IsNullish(r.curr.sales) \/ IsNullish(r.curr.spend))
         => AdsPanelKpis(ads.rows).roas.current = Null
    /\ ads.rows # <<>> /\ (\A r \in Range(ads.rows) :
                             IsNullish(r.prev.sales) \/ IsNullish(r.prev.spend))
         => AdsPanelKpis(ads.rows).roas.previous = Null

\* the lengths of the twelve months of a common year
MonthLengths == <<31, 28, 31, 30, 31, 30, 31, 31, 30, 31, 30, 31>>

\* the number of calendar days of the month of a YYYYMM key
CalendarDays(key) ==
  LET y == key \div 100
      m == key % 100
      leap == y % 4 = 0 /\ (y % 100 # 0 \/ y % 400 = 0)
  IN  MonthLengths[m] + (IF m = 2 /\ leap THEN 1 ELSE 0)

-----------------------------------------------------------------------------
(* Claims about the shares and the sorting *)

\* the total of the current values of a list of breakdown rows
TotalCurrent(rows) == SumOver([i \in 1..Len(rows) |-> rows[i].current], 1..Len(rows))

\* the total of their shares
TotalShare(rows) == SumOver([i \in 1..Len(rows) |-> rows[i].share], 1..Len(rows))

\* C14: in the breakdown rows of one period, share is null for every row when
\* the total of the current values is 0; otherwise each row's share is its
\* current value divided by that total, and the shares add up to 1.
C14_ShareOfTotal ==
  ESVisible =>
    \A metric \in Metrics :
      LET rows == ESRows(metric)
          total == TotalCurrent(rows)
      IN  IF IsZero(total)
          THEN \A r \in Range(rows) : r.share = Null
          ELSE /\ \A r \in Range(rows) : r.share = JsDiv(r.current, total)
               /\ TotalShare(rows) = Num(1)

\* a sortable table is on screen
TableShown == mounted = "table"

\* the rows as the table shows them under one direction
SortedAs(dir) == SortRows(sortRows, sortTable, sortKey, dir)

Directions == {"asc", "desc"}

\* the sort keys of a table whose values are numbers
NumericKeys(table) == SortKeys(table) \ {"store", "store_name"}

\* the value a row holds under a sort key, null where it holds none
KeyValue(table, row, key) ==
  IF table = "matrix" /\ key # "store_name" THEN row[key]
  ELSE SortValue(table, row, key)

\* no row without a value stands before a row with one
NullsLast(rows, table, key) ==
  \A i, j \in 1..Len(rows) :
    i < j /\ IsNullish(KeyValue(table, rows[i], key))
      => IsNullish(KeyValue(table, rows[j], key))

\* C15: in every sortable table, under every numeric sort key and in both
\* directions, each row whose sort-key value is null stands after every row
\* whose value is defined.
C15_NullRowsLast ==
  TableShown /\ sortKey \in NumericKeys(sortTable)
    => \A dir \in Directions : NullsLast(SortedAs(dir), sortTable, sortKey)

\* the rows that hold a value under the sort key, in the order of rows
DefinedRows(rows, table, key) ==
  SelectSeq(rows, LAMBDA r : ~IsNullish(KeyValue(table, r, key)))

Reverse(s) == [i \in 1..Len(s) |-> s[Len(s) + 1 - i]]

\* the descending order of the defined rows is the ascending one reversed, and
\* the rows without a value are last in both
ReversesDefinedRows(rows, table, key) ==
  /\ DefinedRows(SortRows(rows, table, key, "desc"), table, key)
       = Reverse(DefinedRows(SortRows(rows, table, key, "asc"), table, key))
  /\ \A dir \in Directions : NullsLast(SortRows(rows, table, key, dir), table, key)

\* no two rows hold the same defined value under the sort key
DistinctValues(rows, table, key) ==
  \A i, j \in 1..Len(rows) :
    i < j /\ ~IsNullish(KeyValue(table, rows[i], key))
      => KeyValue(table, rows[i], key) # KeyValue(table, rows[j], key)

\* the tables whose comparator handles null before it compares
NullAwareTable == TableShown /\ sortTable \in {"summary", "ads"}
                  /\ sortKey \in NumericKeys(sortTable)

PlaceOf(rows, r) == CHOOSE k \in 1..Len(rows) : rows[k] = r

\* two rows hold exactly the same value under the sort key, or both hold none
SameKeyValue(table, a, b, key) ==
  \/ IsNullish(KeyValue(table, a, key)) /\ IsNullish(KeyValue(table, b, key))
  \/ KeyValue(table, a, key) = KeyValue(table, b, key)

\* rows that tie stand in sorted as they stand in rows
KeepsInputOrder(rows, sorted, table, key) ==
  \A i, j \in 1..Len(rows) :
    i < j /\ SameKeyValue(table, rows[i], rows[j], key)
      => PlaceOf(sorted, rows[i]) < PlaceOf(sorted, rows[j])

-----------------------------------------------------------------------------
(* Claims about the fetches and the recomputation (SpecLive) *)

\* the step changes the selected month, the region, the platform filter or the
\* previous month handed to the ads hook
SelectionChanges == propVars' # propVars

\* the step issues a fetch that was not in flight before it
FetchIssued ==
  \/ dashReqs' \ dashReqs # {}
  \/ pmReq' /\ ~pmReq
  \/ \E q \in adsReqs' : ~q.cancelled /\ q \notin adsReqs

\* C18: each data hook fetches the raw rows once per mount: a change of the
\* selected period, region or platform filter only recomputes over the rows in
\* memory and never issues another fetch.
C18_SelectionNeverFetches == [][SelectionChanges => ~FetchIssued]_vars

\* a hook reports the failure of a fetch
DashFailed == mounted = "dashboard" /\ dash.error = FetchError
MatrixFailed == mounted = "matrix" /\ pm.error = FetchError
AdsFailed == mounted = "ads" /\ ads.error = FetchError

\* a hook exposes none of its results
DashNoData ==
  /\ dash.revenueKpi = NoKpi /\ dash.ordersKpi = NoKpi /\ dash.aovKpi = NoKpi
  /\ dash.regionalKpis = <<>> /\ dash.platformKpis = <<>>
  /\ dash.allMonths = <<>> /\ dash.rawRows = <<>>
MatrixNoData ==
  /\ pm.rows = <<>> /\ pm.trendSeries = <<>> /\ pm.storePlatformShare = <<>>
  /\ pm.rawRows = <<>>
AdsNoData == ads.rows = <<>>

\* the step is the arrival of a response that reports a failure
FailureArrives ==
  \/ mounted = "dashboard" /\ dashReqs' # dashReqs /\ dashReqs' \subseteq dashReqs
       /\ dash'.error = FetchError
  \/ mounted = "matrix" /\ pmReq /\ ~pmReq' /\ pm'.error = FetchError
  \/ mounted = "ads" /\ adsReqs' # adsReqs /\ adsReqs' \subseteq adsReqs
       /\ ads'.error = FetchError /\ ads' # ads

\* C19: when a fetch fails the hook sets error to the failure message and
\* loading to false, issues no retry, and exposes no result data together with
\* the error: no KPIs or rows of a partial or earlier computation remain.
C19_FailureLeavesErrorOnly ==
  /\ [](DashFailed => ~dash.loading /\ DashNoData)
  /\ [](MatrixFailed => ~pm.loading /\ MatrixNoData)
  /\ [](AdsFailed => ~ads.loading /\ AdsNoData)
  /\ [][FailureArrives => ~FetchIssued]_vars

\* the outputs of usePlatformMatrix that its second effect computes
MatrixOutputs(st) ==
  [rows |-> st.rows, trendMonths |-> st.trendMonths, trendSeries |-> st.trendSeries,
   storePlatformShare |-> st.storePlatformShare,
   currentMonth |-> st.currentMonth, prevMonth |-> st.prevMonth]

\* the computation of a hook that holds the same raw rows and has seen no
\* selection but the current one
FreshMatrix ==
  MatrixEffect([MatrixInitial EXCEPT !.months = pm.months, !.rawRows = pm.rawRows,
                                     !.loading = pm.loading, !.error = pm.error],
               selectedMonth, selectedRegion, platformFilter)

\* C20: every output of a recomputation (rows, trend data, shares and the
\* resolved current and previous period labels) is a function of the raw rows
\* and of the current selection only: after any sequence of earlier selections
\* it equals what a fresh computation gives for the current selection.
C20_OutputsOfCurrentSelectionOnly ==
  mounted = "matrix" => MatrixOutputs(pm) = MatrixOutputs(FreshMatrix)

-----------------------------------------------------------------------------
(* Claims about the ads rows *)

\* the rows of uber_ads_metrics of one store of the selected region in a month
AdsRawOf(store, month) ==
  SelectSeq(adsDb, LAMBDA r : r.region = selectedRegion /\ r.store_name = store
                              /\ r.month_date = month)

\* the sum of a field over raw ad rows that all hold a number for it
AdsFieldSum(raw, field) == SumOver([i \in 1..Len(raw) |-> raw[i][field]], 1..Len(raw))

\* the slot of an ads row equals the sum of the raw rows of its store and month
\* wherever these rows all hold a number
SlotIsSum(slot, store, month, field) ==
  LET raw == AdsRawOf(store, month)
  IN  raw # <<>> /\ (\A i \in 1..Len(raw) : ~IsNullish(raw[i][field]))
        => slot[field] = AdsFieldSum(raw, field)

\* C21: for ad data, the current-period and the previous-period spend and
\* sales of a store equal the sum over all raw ad rows of that store in that
\* period.
C21_AdsSlotIsSumOfRawRows ==
  AdsReady =>
    \A r \in Range(ads.rows), field \in {"spend", "sales"} :
      /\ SlotIsSum(r.curr, r.store_name, selectedMonth, field)
      /\ prevMonthIso # NoMonth /\ prevMonthIso # selectedMonth
           => SlotIsSum(r.prev, r.store_name, prevMonthIso, field)

-----------------------------------------------------------------------------
(* Claims about responses that arrive late (SpecLive) *)

\* every load of useDashboardData has had its response and the last one to
\* arrive was a successful load
DashSettled == mounted = "dashboard" /\ dashReqs = {} /\ DashReady

\* C22: in useDashboardData, once the selected month or region has changed any
\* number of times and every outstanding fetch has completed, in any order,
\* currentMonth, prevMonth and the KPIs are those of the most recent selection:
\* the response of an older selection never overwrites the result of a newer.
C22_LatestSelectionWins ==
  DashSettled => dash = DashLoaded(dash.rawRows, selectedMonth, selectedRegion)

\* a load of useUberAdsMetrics that has not been cancelled awaits its response
AdsLoadOutstanding == \E q \in adsReqs : ~q.cancelled

\* C23: in useUberAdsMetrics loading is true only while a request that has not
\* been cancelled is in flight: after any parameter changes (region or current
\* month becoming empty included) and response arrivals, loading is false once
\* no such request is outstanding.
C23_LoadingOnlyWhileInFlight ==
  mounted = "ads" /\ ads.loading => AdsLoadOutstanding

\* the rows of useUberAdsMetrics for the parameters it has now
AdsRowsOfParams(region, cur, prev) ==
  IF region = "" \/ cur = NoMonth THEN <<>>
  ELSE AdsRows(AdsQuery(adsDb, region, cur, prev), cur, prev)

\* the step is the arrival of the response of a cancelled load
CancelledResponseArrives ==
  mounted = "ads" /\ \E q \in adsReqs : q.cancelled /\ adsReqs' = adsReqs \ {q}

-----------------------------------------------------------------------------
(* Claims about the role lock (SpecApp) *)

\* a handler has ended and App is at rest
AppAtRest == mounted = "app"

\* C25: once the role of the user is a single region (BC, ON or CA) the
\* selected region is forced to that region: no data query is issued for a
\* region outside allowedRegions and no sequence of clicks on the region
\* buttons selects one.
C25_RoleLocksRegion ==
  AppAtRest =>
    /\ app.role \in AppRegions => selectedRegion = app.role
    /\ \A q \in app.issued : q.role \in AppRegions => q.region = q.role

-----------------------------------------------------------------------------
(* Claims about the platform shares and the trend of usePlatformMatrix *)

\* a number between 0 and 1
InUnitInterval(v) == v.t = "num" /\ 0 <= v.n /\ v.n <= v.d

\* the sum of the platform shares of one entry of storePlatformShare
SharesTotal(entry) ==
  SumOver([p \in 1..Len(entry.shares) |-> entry.shares[p].share], 1..Len(entry.shares))

\* C26: for every store listed in storePlatformShare each platform share lies
\* between 0 and 1, and the shares of the three platforms (UBER, Fantuan,
\* Doordash) add up to 1.
C26_PlatformSharesAddUp ==
  MatrixReady =>
    \A entry \in Range(pm.storePlatformShare) :
      /\ Len(entry.shares) = 3
      /\ \A p \in 1..3 : InUnitInterval(entry.shares[p].share)
      /\ SharesTotal(entry) = Num(1)

\* the step changes the platform filter of usePlatformMatrix and leaves the
\* region, the month and the raw rows as they are
OnlyFilterChanges ==
  /\ mounted = "matrix"
  /\ platformFilter' # platformFilter
  /\ selectedMonth' = selectedMonth /\ selectedRegion' = selectedRegion
  /\ pm'.rawRows = pm.rawRows /\ pm'.months = pm.months

\* C27: changing platformFilter while region, month and raw rows stay the same
\* leaves storePlatformShare unchanged: only the table rows and the trend
\* series depend on the platform filter.
C27_FilterLeavesSharesAlone ==
  [][OnlyFilterChanges =>
       /\ pm'.storePlatformShare = pm.storePlatformShare
       /\ pm'.trendMonths = pm.trendMonths
       /\ pm'.currentMonth = pm.currentMonth /\ pm'.prevMonth = pm.prevMonth]_vars

\* the filter has been changed to a platform, the table shows other rows than
\* it shows for every platform and stores are listed with their shares
C27_Witness ==
  /\ MatrixReady /\ platformFilter # "ALL"
  /\ pm.storePlatformShare # <<>>
  /\ pm.rows # MatrixEffect(pm, selectedMonth, selectedRegion, "ALL").rows
  /\ pm.storePlatformShare
       = MatrixEffect(pm, selectedMonth, selectedRegion, "ALL").storePlatformShare

-----------------------------------------------------------------------------
(* Claims about the trend window (SpecData) *)

\* the up-to-three consecutive periods of the index that end at period m
LastThree(index, m) ==
  LET k == CHOOSE i \in 1..Len(index) : index[i] = m
      n == IF k >= 3 THEN 3 ELSE k
  IN  [j \in 1..n |-> index[k - n + j]]

\* the sum, over the rows that satisfy keep, of the numbers the rows add for a field
FieldSumWhere(rows, field, keep(_)) ==
  LET mine == SelectSeq(rows, keep)
  IN  SumOver(Added(mine, field), 1..Len(mine))

\* the sum of the revenue held by the rows of usePlatformMatrix that satisfy keep
RevenueSumWhere(rows, keep(_)) ==
  LET mine == SelectSeq(rows, keep)
  IN  SumOver(Revenues(mine), 1..Len(mine))

\* trendSeries of usePlatformMatrix over the window trendMonths
MatrixTrendPerPeriod ==
  /\ pm.trendMonths = LastThree(pm.months, selectedMonth)
  /\ \A s \in Range(pm.trendSeries) :
       /\ Len(s.values) = Len(pm.trendMonths)
       /\ \A i \in 1..Len(pm.trendMonths) :
            s.values[i] =
              RevenueSumWhere(pm.rawRows,
                LAMBDA r : /\ r.region = selectedRegion
                           /\ r.store_name = s.store_name
                           /\ r.month = pm.trendMonths[i]
                           /\ (platformFilter = "ALL" \/ r.platform = platformFilter))

\* the trend series of the rendered ExecutiveSummary for one active metric
ESTrend(metric) ==
  PlatformTrendSeries(dash.rawRows, PeriodMonths(dash.allMonths, selectedMonth),
                      selectedRegion, metric)

\* platformTrendSeries of ExecutiveSummary over the window periodMonths; the
\* average order value is the quotient of the two sums of the single period
SummaryTrendPerPeriod(metric) ==
  LET window == PeriodMonths(dash.allMonths, selectedMonth)
  IN  /\ window = LastThree(dash.allMonths, selectedMonth)
      /\ \A s \in Range(ESTrend(metric)) :
           /\ Len(s.points) = Len(window)
           /\ \A i \in 1..Len(window) :
                LET revenue == FieldSumWhere(dash.rawRows, "revenue",
                                 LAMBDA r : /\ r.region = selectedRegion
                                            /\ r.platform = s.platform
                                            /\ r.month = window[i])
                    orders == FieldSumWhere(dash.rawRows, "orders",
                                LAMBDA r : /\ r.region = selectedRegion
                                           /\ r.platform = s.platform
                                           /\ r.month = window[i])
                IN  /\ s.points[i].month = window[i]
                    /\ s.points[i].value =
                         IF metric = "revenue" THEN revenue
                         ELSE IF metric = "orders" THEN orders
                         ELSE IF JsGt0(orders) THEN JsDiv(revenue, orders) ELSE Num(0)

-----------------------------------------------------------------------------
(* Claims about the sort headers (SpecSort) *)

\* the tables of UberAdsPanel and ExecutiveSummary
HeaderTable == TableShown /\ sortTable \in {"ads", "summary"}

\* the direction a table gives a key that was not the sort key
DefaultDir(table, key) == IF table = "ads" /\ key = "store" THEN "asc" ELSE "desc"

OtherDir(dir) == CHOOSE d \in Directions : d # dir

\* the sort state after the header of key is clicked
AfterClick(key) ==
  IF key = sortKey THEN <<sortKey, OtherDir(sortDir)>>
  ELSE <<key, DefaultDir(sortTable, key)>>

\* the rows the table shows under a sort state
Shown(key, dir) == SortRows(sortRows, sortTable, key, dir)

\* every header of the table, clicked now, flips the direction or takes the
\* default direction, and shows the same rows
ClickSetsSortState ==
  HeaderTable =>
    \A key \in SortKeys(sortTable) :
      LET next == HandleSortState(sortTable, sortKey, sortDir, key)
      IN  /\ next = AfterClick(key)
          /\ Len(Shown(next[1], next[2])) = Len(Shown(sortKey, sortDir))
          /\ Range(Shown(next[1], next[2])) = Range(Shown(sortKey, sortDir))

\* a step of the table that changes the sort state
SortStateChanges == HeaderTable /\ <<sortKey, sortDir>>' # <<sortKey, sortDir>>

\* C29: clicking a sort header changes only the sort state: the current key keeps
\* the key and flips the direction, another key becomes the sort key with the
\* default direction of the table (ads: ascending for store, descending otherwise;
\* ExecutiveSummary: descending); the rows shown and their values are unchanged
C29_ClickChangesSortStateOnly ==
  /\ []ClickSetsSortState
  /\ [][SortStateChanges =>
          /\ <<sortKey', sortDir'>> = AfterClick(sortKey')
          /\ sortTable' = sortTable /\ sortRows' = sortRows
          /\ Range(SortRows(sortRows', sortTable', sortKey', sortDir'))
               = Range(Shown(sortKey, sortDir))
          /\ UNCHANGED <<mounted, db, adsDb, propVars, dashVars, matrixVars, adsVars,
                         deltaVars, app>>]_vars

\* the ads table sorted by store, descending: store was clicked twice, the first
\* click giving it the ascending default and the second flipping it
C29_Witness ==
  /\ TableShown /\ sortTable = "ads"
  /\ sortKey = "store" /\ sortDir = "desc"
  /\ Len(sortRows) >= 2
  /\ Shown("store", "desc") # Shown("spend", "desc")

-----------------------------------------------------------------------------
(* Claims about the KPIs of useDashboardData (SpecData) *)

\* the platform KPIs of one region
PlatformKpisIn(region) == SelectSeq(dash.platformKpis, LAMBDA k : k.region = region)

\* the sum of the current values of one field over a list of KPIs
CurrentSum(kpis, field) ==
  SumOver([i \in 1..Len(kpis) |-> kpis[i][field].current], 1..Len(kpis))

\* the card KPI of a field
CardKpi(field) == IF field = "revenue" THEN dash.revenueKpi ELSE dash.ordersKpi

====
